---------------------------- MODULE Spec2Model ----------------------------
(***************************************************************************)
(* Model of the snapshot / grid-level data-access layer of the monitor     *)
(* (src/lib/redis.ts) and of the handlers that write through it.           *)
(*                                                                         *)
(* Representation choices                                                  *)
(*  - A JavaScript string is a sequence of atoms (Seq of TLA+ strings):    *)
(*    a template literal is a concatenation, split/endsWith/parseInt work  *)
(*    on the sequence.  Decimal numbers are spelled digit by digit.        *)
(*  - A JavaScript integer is a two-limb value [s, ms] = s*1000 + ms with  *)
(*    0 <= ms < 1000, because epoch-millisecond values exceed the 32-bit   *)
(*    integers of the model checker.  Date.now() is such a value.          *)
(*  - A JSON value is a tagged record (null, num, str, arr, obj).          *)
(***************************************************************************)
EXTENDS Integers, Sequences, FiniteSets, TLC

\* ------------------------------------------------------------------------
\* Bounds of the model (not program constants)
\* ------------------------------------------------------------------------
MaxStores == 2
MaxMs == 1
MaxDayTicks == 2
MaxGridOps == 3
MaxRecords == 3

\* ------------------------------------------------------------------------
\* Numbers: two-limb integers and their decimal spelling
\* ------------------------------------------------------------------------
Limb == 1000

Num(n) == [s |-> n \div Limb, ms |-> n % Limb]

NumLeq(a, b) == a.s < b.s \/ (a.s = b.s /\ a.ms <= b.ms)

NumLt(a, b) == a.s < b.s \/ (a.s = b.s /\ a.ms < b.ms)

NumAdd(a, b) ==
  [s |-> a.s + b.s + ((a.ms + b.ms) \div Limb), ms |-> (a.ms + b.ms) % Limb]

\* seconds -> milliseconds (x * 1000)
SecToMs(sec) == [s |-> sec, ms |-> 0]

DigitChars == <<"0", "1", "2", "3", "4", "5", "6", "7", "8", "9">>

DigitSet == {DigitChars[i] : i \in 1..10}

DigitValue == [c \in DigitSet |-> (CHOOSE i \in 1..10 : DigitChars[i] = c) - 1]

IsDigit(c) == c \in DigitSet

DigitVal(c) == DigitValue[c]

RECURSIVE Digits(_)
Digits(n) ==
  IF n < 10 THEN <<DigitChars[n + 1]>>
  ELSE Digits(n \div 10) \o <<DigitChars[(n % 10) + 1]>>

Pad3(n) ==
  <<DigitChars[(n \div 100) + 1], DigitChars[((n \div 10) % 10) + 1],
    DigitChars[(n % 10) + 1]>>

\* `${n}` / Number.prototype.toString for a non-negative integer
NumToString(w) ==
  IF w.s = 0 THEN Digits(w.ms) ELSE Digits(w.s) \o Pad3(w.ms)

\* value of the decimal digits ds[1..n]
RECURSIVE DigitsVal(_, _)
DigitsVal(ds, n) ==
  IF n = 0 THEN 0 ELSE DigitsVal(ds, n - 1) * 10 + DigitVal(ds[n])

DigitsToNum(ds) ==
  IF Len(ds) <= 3 THEN [s |-> 0, ms |-> DigitsVal(ds, Len(ds))]
  ELSE [s |-> DigitsVal(ds, Len(ds) - 3),
        ms |-> DigitsVal(SubSeq(ds, Len(ds) - 2, Len(ds)), 3)]

\* number of leading decimal digits of str[i..]
RECURSIVE DigitsFrom(_, _)
DigitsFrom(str, i) ==
  IF i > Len(str) \/ ~IsDigit(str[i]) THEN 0 ELSE 1 + DigitsFrom(str, i + 1)

DigitPrefixLen(str) == DigitsFrom(str, 1)

NaN == [nan |-> TRUE]

\* parseInt(str): the leading decimal digits, NaN when there are none
ParseInt(str) ==
  IF DigitPrefixLen(str) = 0 THEN NaN
  ELSE DigitsToNum(SubSeq(str, 1, DigitPrefixLen(str)))

\* ------------------------------------------------------------------------
\* Strings
\* ------------------------------------------------------------------------
\* the pieces of str[i..] between separators, str[from..i-1] being the
\* piece under construction
RECURSIVE SplitFrom(_, _, _, _)
SplitFrom(str, sep, from, i) ==
  IF i > Len(str) THEN <<SubSeq(str, from, Len(str))>>
  ELSE IF str[i] = sep
    THEN <<SubSeq(str, from, i - 1)>> \o SplitFrom(str, sep, i + 1, i + 1)
  ELSE SplitFrom(str, sep, from, i + 1)

\* str.split(sep)
Split(str, sep) == SplitFrom(str, sep, 1, 1)

\* str.endsWith(suffix)
EndsWith(str, suffix) ==
  /\ Len(str) >= Len(suffix)
  /\ SubSeq(str, Len(str) - Len(suffix) + 1, Len(str)) = suffix

\* str.startsWith(prefix): the glob `prefix*` of KEYS
StartsWith(str, prefix) ==
  /\ Len(str) >= Len(prefix)
  /\ SubSeq(str, 1, Len(prefix)) = prefix

\* ------------------------------------------------------------------------
\* JSON values, JSON.stringify and JSON.parse
\* ------------------------------------------------------------------------
JNull == [t |-> "null"]
JNum(w) == [t |-> "num", v |-> w]
JStr(a) == [t |-> "str", v |-> a]
JArr(elems) == [t |-> "arr", v |-> elems]
\* members: a sequence of <<name, value>> pairs in insertion order
JObj(members) == [t |-> "obj", v |-> members]

RECURSIVE JSONStringify(_)
RECURSIVE StringifyElems(_)
RECURSIVE StringifyMembers(_)

StringifyElems(elems) ==
  IF Len(elems) = 0 THEN <<>>
  ELSE IF Len(elems) = 1 THEN JSONStringify(elems[1])
  ELSE JSONStringify(elems[1]) \o <<",">> \o StringifyElems(Tail(elems))

StringifyMembers(ms) ==
  IF Len(ms) = 0 THEN <<>>
  ELSE LET one == <<"\"", ms[1][1], "\"", ":">> \o JSONStringify(ms[1][2])
       IN IF Len(ms) = 1 THEN one
          ELSE one \o <<",">> \o StringifyMembers(Tail(ms))

JSONStringify(j) ==
  CASE j.t = "null" -> <<"null">>
    [] j.t = "num" -> NumToString(j.v)
    [] j.t = "str" -> <<"\"", j.v, "\"">>
    [] j.t = "arr" -> <<"[">> \o StringifyElems(j.v) \o <<"]">>
    [] j.t = "obj" -> <<"{">> \o StringifyMembers(j.v) \o <<"}">>

\* Parse results: [ok, val, rest]; a SyntaxError is ok = FALSE
ParseFail == [ok |-> FALSE]
ParseOk(val, rest) == [ok |-> TRUE, val |-> val, rest |-> rest]

RECURSIVE ParseValue(_)
RECURSIVE ParseElems(_, _)
RECURSIVE ParseMembers(_, _)

\* elements after "[" (acc holds those read so far)
ParseElems(str, acc) ==
  LET r == ParseValue(str)
  IN IF ~r.ok \/ Len(r.rest) = 0 THEN ParseFail
     ELSE IF r.rest[1] = "]" THEN ParseOk(JArr(Append(acc, r.val)), Tail(r.rest))
     ELSE IF r.rest[1] = "," THEN ParseElems(Tail(r.rest), Append(acc, r.val))
     ELSE ParseFail

\* members after "{" (acc holds those read so far)
ParseMembers(str, acc) ==
  IF Len(str) < 4 \/ str[1] # "\"" \/ str[3] # "\"" \/ str[4] # ":"
  THEN ParseFail
  ELSE LET r == ParseValue(SubSeq(str, 5, Len(str)))
       IN IF ~r.ok \/ Len(r.rest) = 0 THEN ParseFail
          ELSE IF r.rest[1] = "}"
            THEN ParseOk(JObj(Append(acc, <<str[2], r.val>>)), Tail(r.rest))
          ELSE IF r.rest[1] = ","
            THEN ParseMembers(Tail(r.rest), Append(acc, <<str[2], r.val>>))
          ELSE ParseFail

ParseValue(str) ==
  IF Len(str) = 0 THEN ParseFail
  ELSE IF str[1] = "null" THEN ParseOk(JNull, Tail(str))
  ELSE IF IsDigit(str[1])
    THEN LET n == DigitPrefixLen(str)
         IN IF n > 1 /\ str[1] = "0" THEN ParseFail
            ELSE ParseOk(JNum(DigitsToNum(SubSeq(str, 1, n))),
                         SubSeq(str, n + 1, Len(str)))
  ELSE IF str[1] = "\""
    THEN IF Len(str) >= 3 /\ str[3] = "\""
         THEN ParseOk(JStr(str[2]), SubSeq(str, 4, Len(str)))
         ELSE ParseFail
  ELSE IF str[1] = "["
    THEN IF Len(str) >= 2 /\ str[2] = "]"
         THEN ParseOk(JArr(<<>>), SubSeq(str, 3, Len(str)))
         ELSE ParseElems(Tail(str), <<>>)
  ELSE IF str[1] = "{"
    THEN IF Len(str) >= 2 /\ str[2] = "}"
         THEN ParseOk(JObj(<<>>), SubSeq(str, 3, Len(str)))
         ELSE ParseMembers(Tail(str), <<>>)
  ELSE ParseFail

\* JSON.parse(text): [ok |-> TRUE, val |-> v], or ok = FALSE for a SyntaxError
JSONParse(str) ==
  LET r == ParseValue(str)
  IN IF r.ok /\ Len(r.rest) = 0 THEN [ok |-> TRUE, val |-> r.val]
     ELSE [ok |-> FALSE]


\* ------------------------------------------------------------------------
\* Inputs
\* ------------------------------------------------------------------------
Kinds == {"positions", "orders", "trades"}
Accounts == {"a1", "a2"}
Callers == {"c1"}

PayloadA == JArr(<<>>)
PayloadB == JObj(<<<<"pos", JNum(Num(1500))>>>>)
Payloads == {PayloadA, PayloadB}

\* the (kind, account, payload) arguments of the store calls explored
StoreInputs ==
  {<<"positions", "a1", PayloadA>>, <<"positions", "a1", PayloadB>>,
   <<"orders", "a2", PayloadB>>, <<"trades", "a1", PayloadA>>}

\* ------------------------------------------------------------------------
\* The key-value store: string keys with an optional expiry instant
\* ------------------------------------------------------------------------
NoExpiry == [ttl |-> FALSE]
ExpiresAt(w) == [ttl |-> TRUE, at |-> w]

\* a key is visible until its expiry instant is reached
Live(st, t, key) ==
  /\ key \in DOMAIN st
  /\ (st[key].exp.ttl => NumLt(t, st[key].exp.at))

\* SETEX key seconds value, executed at instant t
RedisSetex(st, t, key, seconds, value) ==
  (key :> [val |-> value, exp |-> ExpiresAt(NumAdd(t, SecToMs(seconds)))]) @@ st

\* SET key value (discards any expiry)
RedisSet(st, key, value) == (key :> [val |-> value, exp |-> NoExpiry]) @@ st

\* GET key: the value, or nil
RedisGet(st, t, key) ==
  IF Live(st, t, key) THEN [nil |-> FALSE, val |-> st[key].val]
  ELSE [nil |-> TRUE]

\* KEYS prefix*
RedisKeys(st, t, prefix) ==
  {key \in DOMAIN st : Live(st, t, key) /\ StartsWith(key, prefix)}

\* JavaScript truthiness of a GET reply (nil and "" are falsy)
Truthy(reply) == ~reply.nil /\ Len(reply.val) > 0

\* ------------------------------------------------------------------------
\* Snapshot store: keys, retention, values
\* ------------------------------------------------------------------------
\* variant: the retention of the equity samples
SnapshotTTLSeconds_Week == 7 * 24 * 60 * 60

SnapshotTTLSeconds == 30 * 24 * 60 * 60

\* variant: every kind written with SETEX
HasTTL_All(kind) == TRUE

\* positions and orders are written with SETEX, trade history with SET
HasTTL(kind) == kind \in {"positions", "orders"}

KeyPrefix(kind, acct) == <<"hypotom-monitor", ":", kind, ":", acct, ":">>

\* variant: historical key with the timestamp in whole seconds
HistoryKey_Seconds(kind, acct, timestamp) ==
  <<"hypotom-monitor", ":", kind, ":", acct, ":">> \o Digits(timestamp.s)

HistoryKey(kind, acct, timestamp) == KeyPrefix(kind, acct) \o NumToString(timestamp)

\* variant: one "latest" key per account, not per kind
LatestKey_Shared(kind, acct) ==
  <<"hypotom-monitor", ":", acct, ":", "latest">>

LatestKey(kind, acct) == KeyPrefix(kind, acct) \o <<"latest">>

HistoryValue(payload) == JSONStringify(payload)

\* variant: the payload stored without its envelope
LatestValue_Bare(timestamp, payload) == JSONStringify(payload)

LatestValue(timestamp, payload) ==
  JSONStringify(JObj(<<<<"timestamp", JNum(timestamp)>>, <<"data", payload>>>>))

\* variant: a key that exists is not overwritten (SET ... NX)
WriteKey_IfAbsent(st, t, kind, key, value) ==
  IF key \in DOMAIN st THEN st
  ELSE IF kind \in {"positions", "orders"}
  THEN RedisSetex(st, t, key, 30 * 24 * 60 * 60, value)
  ELSE RedisSet(st, key, value)

\* the write of one key by a store function, at instant t
WriteKey(st, t, kind, key, value) ==
  IF HasTTL(kind) THEN RedisSetex(st, t, key, SnapshotTTLSeconds, value)
  ELSE RedisSet(st, key, value)

\* getLatestPositions / getLatestOrders / getLatestTradeHistory
GetLatest(st, t, kind, acct) ==
  LET value == RedisGet(st, t, LatestKey(kind, acct))
  IN IF Truthy(value)
     THEN LET p == JSONParse(value.val)
          IN IF p.ok THEN p.val ELSE [throws |-> "SyntaxError"]
     ELSE JNull

KeyTimestamp(key) == ParseInt(Split(key, ":")[4])

\* variant: end bound exclusive
InRange_ExclusiveEnd(timestamp, startTime, endTime) ==
  /\ timestamp # NaN
  /\ NumLeq(startTime, timestamp)
  /\ NumLt(timestamp, endTime)

InRange(timestamp, startTime, endTime) ==
  /\ timestamp # NaN
  /\ NumLeq(startTime, timestamp)
  /\ NumLeq(timestamp, endTime)

\* the keys the loop of a range read does not skip, each with the
\* timestamp parsed from it
ScannedKeys(st, t, kind, acct) ==
  {[key |-> k, timestamp |-> KeyTimestamp(k)] :
     k \in {h \in RedisKeys(st, t, KeyPrefix(kind, acct)) :
              ~EndsWith(h, <<":", "latest">>)}}

\* what the loop fetches and parses: one entry per key in the range whose
\* GET reply is truthy
HistoryEntries(st, t, kind, acct, startTime, endTime) ==
  {[timestamp |-> e.timestamp, parsed |-> JSONParse(st[e.key].val)] :
     e \in {x \in ScannedKeys(st, t, kind, acct) :
              /\ InRange(x.timestamp, startTime, endTime)
              /\ Truthy(RedisGet(st, t, x.key))}}

\* results.sort((a, b) => a.timestamp - b.timestamp)
RECURSIVE SortByTimestamp(_)
SortByTimestamp(results) ==
  IF results = {} THEN <<>>
  ELSE LET first == CHOOSE r \in results :
                      \A q \in results : NumLeq(r.timestamp, q.timestamp)
       IN <<first>> \o SortByTimestamp(results \ {first})

\* getPositionsHistory / getOrdersHistory / getTradeHistoryRange
GetHistory(st, t, kind, acct, startTime, endTime) ==
  LET entries == HistoryEntries(st, t, kind, acct, startTime, endTime)
  IN IF \E e \in entries : ~e.parsed.ok
     THEN [throws |-> "SyntaxError"]
     ELSE SortByTimestamp({[timestamp |-> e.timestamp, data |-> e.parsed.val] :
                             e \in entries})

\* how a call ends: with a value, or by throwing to its caller
Resolves(value) == [threw |-> FALSE, value |-> value]
Rejects(error) == [threw |-> TRUE, error |-> error]

\* await client.get(key) / await client.keys(pattern): the store answers, or
\* the promise rejects
ReadOutcomes == {"resolves", "rejects"}

\* a call of getLatestPositions / getLatestOrders: no try around the await
\* or around JSON.parse
GetLatestCall(st, t, kind, acct, outcome) ==
  IF outcome = "rejects" THEN Rejects("Error")
  ELSE LET value == RedisGet(st, t, LatestKey(kind, acct))
       IN IF Truthy(value)
          THEN LET p == JSONParse(value.val)
               IN IF p.ok THEN Resolves(p.val) ELSE Rejects("SyntaxError")
          ELSE Resolves(JNull)

\* a call of getPositionsHistory: no try around client.keys, client.get or
\* JSON.parse
GetHistoryCall(st, t, kind, acct, startTime, endTime, outcome) ==
  IF outcome = "rejects" THEN Rejects("Error")
  ELSE LET entries == HistoryEntries(st, t, kind, acct, startTime, endTime)
       IN IF \E e \in entries : ~e.parsed.ok
          THEN Rejects("SyntaxError")
          ELSE Resolves(GetHistory(st, t, kind, acct, startTime, endTime))

\* ------------------------------------------------------------------------
\* Grid level store: one hash per (exchange, account, symbol, side), one
\* field level_{index} per level, the value being the JSON of the level
\* ------------------------------------------------------------------------
Exchanges == {"asterdex"}
Symbols == {"BTCUSDT", "ETHUSDT"}
Sides == {"buy", "sell"}

\* levels handed to setGridLevel: LevelA carries a member LevelB lacks
LevelA ==
  JObj(<<<<"price", JNum(Num(100))>>, <<"size", JNum(Num(2))>>,
         <<"status", JStr("pending")>>, <<"value", JNum(Num(200))>>>>)

LevelB ==
  JObj(<<<<"price", JNum(Num(101))>>, <<"size", JNum(Num(3))>>,
         <<"status", JStr("filled")>>>>)

\* side.toUpperCase()
ToUpperCase(side) ==
  IF side = "buy" THEN "BUY" ELSE IF side = "sell" THEN "SELL" ELSE side

\* variant: the key without its side token
GridKey_NoSide(accountId, symbol, side, exchange) ==
  <<"hypotomuai", ":", exchange, ":", "mmgrid", ":", accountId, ":", symbol>>

GridKey(accountId, symbol, side, exchange) ==
  <<"hypotomuai", ":", exchange, ":", "mmgrid", ":", accountId, ":", symbol,
    ":", ToUpperCase(side)>>

\* `level_${levelIndex}`
LevelField(levelIndex) == <<"level", "_">> \o NumToString(Num(levelIndex))

\* A hash is the sequence of its [field, value] pairs in insertion order.
\* HGETALL key: a key that does not exist reads as the empty hash
HGetAll(st, key) == IF key \in DOMAIN st THEN st[key] ELSE <<>>

HasField(h, field) == \E i \in 1..Len(h) : h[i].field = field

PutField(h, field, value) ==
  IF HasField(h, field)
  THEN [i \in 1..Len(h) |->
          IF h[i].field = field THEN [field |-> field, value |-> value]
          ELSE h[i]]
  ELSE Append(h, [field |-> field, value |-> value])

\* variant: the members of the JSON object already stored under the field
\* are kept when the new value does not name them
HSet_Merge(st, key, field, value) ==
  LET h == IF key \in DOMAIN st THEN st[key] ELSE <<>>
      old == IF \E i \in 1..Len(h) : h[i].field = field
             THEN JSONParse(h[CHOOSE i \in 1..Len(h) : h[i].field = field].value)
             ELSE [ok |-> FALSE]
      new == JSONParse(value)
      kept == IF old.ok /\ new.ok /\ old.val.t = "obj" /\ new.val.t = "obj"
              THEN SelectSeq(old.val.v,
                     LAMBDA m : \A i \in 1..Len(new.val.v) : new.val.v[i][1] # m[1])
              ELSE <<>>
      merged == IF kept = <<>> THEN value
                ELSE JSONStringify(JObj(new.val.v \o kept))
  IN (key :> PutField(h, field, merged)) @@ st

\* HSET key field value
HSet(st, key, field, value) ==
  (key :> PutField(HGetAll(st, key), field, value)) @@ st

\* variant: the keys of both sides are removed (the side token, the last
\* atom of the key, is not compared)
Del_BothSides(st, key) ==
  [k \in {h \in DOMAIN st : SubSeq(h, 1, Len(h) - 1) # SubSeq(key, 1, Len(key) - 1)}
     |-> st[k]]

\* DEL key
Del(st, key) == [k \in DOMAIN st \ {key} |-> st[k]]

\* variant: the whole hash is removed
HDel_WholeKey(st, key, field) == [k \in DOMAIN st \ {key} |-> st[k]]

\* HDEL key field: a hash left without fields no longer exists
HDel(st, key, field) ==
  LET rest == SelectSeq(HGetAll(st, key), LAMBDA e : e.field # field)
  IN IF rest = <<>> THEN Del(st, key) ELSE (key :> rest) @@ st

\* Object.keys(data)
ObjectKeys(data) == [i \in 1..Len(data) |-> data[i].field]

\* data[levelKey]
FieldValue(data, levelKey) ==
  data[CHOOSE i \in 1..Len(data) : data[i].field = levelKey].value

\* variant: the level number is the first digit after "level_"
LevelNumber_FirstDigit(levelKey) ==
  IF Len(Split(levelKey, "_")) < 2 THEN NaN
  ELSE ParseInt(SubSeq(Split(levelKey, "_")[2], 1, 1))

\* parseInt(a.split("_")[1]); parseInt(undefined) is NaN
LevelNumber(levelKey) ==
  IF Len(Split(levelKey, "_")) < 2 THEN NaN
  ELSE ParseInt(Split(levelKey, "_")[2])

\* the sign of numA - numB in the comparator; NaN orders as equal
CompareLevelKeys(a, b) ==
  LET numA == LevelNumber(a)
      numB == LevelNumber(b)
  IN IF numA = NaN \/ numB = NaN THEN 0
     ELSE IF NumLt(numA, numB) THEN -1
     ELSE IF NumLt(numB, numA) THEN 1
     ELSE 0

\* Array.prototype.sort is stable: a key goes behind every key that does
\* not compare greater than it
InsertLevelKey(sorted, levelKey) ==
  LET n == Cardinality({i \in 1..Len(sorted) :
                          CompareLevelKeys(sorted[i], levelKey) <= 0})
  IN SubSeq(sorted, 1, n) \o <<levelKey>> \o SubSeq(sorted, n + 1, Len(sorted))

RECURSIVE SortLevelKeys(_)
SortLevelKeys(keys) ==
  IF keys = <<>> THEN <<>>
  ELSE InsertLevelKey(SortLevelKeys(SubSeq(keys, 1, Len(keys) - 1)),
                      keys[Len(keys)])

\* the loop over the sorted keys: a level that parses is pushed, a
\* SyntaxError is caught, logged and the level skipped
RECURSIVE ParsedLevels(_, _)
ParsedLevels(data, levelKeys) ==
  IF levelKeys = <<>> THEN <<>>
  ELSE LET levelData == JSONParse(FieldValue(data, Head(levelKeys)))
       IN (IF levelData.ok THEN <<levelData.val>> ELSE <<>>)
            \o ParsedLevels(data, Tail(levelKeys))

\* the replies client.hgetall(key) can give: the hash, or a rejection
HGetAllReplies(st, key) ==
  {[err |-> FALSE, data |-> HGetAll(st, key)], [err |-> TRUE]}

\* getGridLevels from the reply of hgetall on; the outer catch returns []
GridLevelsOf(reply) ==
  IF reply.err THEN <<>>
  ELSE IF Len(ObjectKeys(reply.data)) = 0 THEN <<>>
  ELSE ParsedLevels(reply.data, SortLevelKeys(ObjectKeys(reply.data)))

\* getGridLevels when the store answers
GetGridLevels(st, accountId, symbol, side, exchange) ==
  GridLevelsOf([err |-> FALSE,
                data |-> HGetAll(st, GridKey(accountId, symbol, side, exchange))])

\* the reply of HGETALL key when the reads named in `failing` fail
ReplyFor(st, key, failing) ==
  IF key \in failing THEN [err |-> TRUE]
  ELSE [err |-> FALSE, data |-> HGetAll(st, key)]

\* getGridLevelsBothSides: two getGridLevels under Promise.all
GetGridLevelsBothSides(st, accountId, symbol, exchange, failing) ==
  [buy |-> GridLevelsOf(ReplyFor(st, GridKey(accountId, symbol, "buy", exchange),
                                 failing)),
   sell |-> GridLevelsOf(ReplyFor(st, GridKey(accountId, symbol, "sell", exchange),
                                  failing))]

\* the keys queued on the pipeline, BUY then SELL for each symbol
BatchKeys(accountId, symbols, exchange) ==
  [i \in 1..(2 * Len(symbols)) |->
     <<"hypotomuai", ":", exchange, ":", "mmgrid", ":", accountId, ":",
       symbols[(i + 1) \div 2], ":", IF i % 2 = 1 THEN "BUY" ELSE "SELL">>]

\* what await pipeline.exec() gives: a rejection, or one [error, data]
\* pair per queued command
ExecOutcomes == {"results", "rejected"}

PipelineExec(st, keys, outcome, failing) ==
  IF outcome = "rejected" THEN [kind |-> "rejected"]
  ELSE [kind |-> "results",
        results |-> [i \in 1..Len(keys) |-> ReplyFor(st, keys[i], failing)]]

\* parseLevels of batchGetGridLevelsBothSides
ParseLevels(result) ==
  IF result.err THEN <<>>
  ELSE IF Len(ObjectKeys(result.data)) = 0 THEN <<>>
  ELSE ParsedLevels(result.data, SortLevelKeys(ObjectKeys(result.data)))

\* new Map()
EmptyMap == <<>>

\* batchGetGridLevelsBothSides from the outcome of pipeline.exec() on: the
\* Map as a function; a symbol listed twice keeps its last entry
BatchGetGridLevelsBothSides(st, accountId, symbols, exchange, outcome, failing) ==
  IF Len(symbols) = 0 THEN EmptyMap
  ELSE LET pipelineResults ==
             PipelineExec(st, BatchKeys(accountId, symbols, exchange), outcome,
                          failing)
       IN IF pipelineResults.kind = "rejected" THEN EmptyMap
          ELSE IF pipelineResults.kind = "null" THEN EmptyMap
          ELSE [symbol \in {symbols[i] : i \in 1..Len(symbols)} |->
                  LET i == CHOOSE j \in 1..Len(symbols) :
                             /\ symbols[j] = symbol
                             /\ \A k \in (j + 1)..Len(symbols) : symbols[k] # symbol
                  IN [buy |-> ParseLevels(pipelineResults.results[2 * i - 1]),
                      sell |-> ParseLevels(pipelineResults.results[2 * i])]]

\* the symbol lists and the failing reads explored
SymbolLists ==
  {<<>>, <<"BTCUSDT">>, <<"ETHUSDT", "BTCUSDT">>, <<"BTCUSDT", "BTCUSDT">>}

FailingReads(accountId, exchange) ==
  {{}, {GridKey(accountId, "BTCUSDT", "buy", exchange)},
   {GridKey(accountId, sym, side, exchange) : sym \in Symbols, side \in Sides}}

\* the setGridLevel calls explored: <<accountId, symbol, side, levelIndex, level>>
SetLevelInputs ==
  {<<"a1", "BTCUSDT", "buy", 2, LevelA>>, <<"a1", "BTCUSDT", "buy", 2, LevelB>>,
   <<"a1", "BTCUSDT", "buy", 10, LevelB>>, <<"a1", "BTCUSDT", "sell", 2, LevelA>>,
   <<"a2", "BTCUSDT", "buy", 1, LevelB>>}

\* values the strategy process leaves in a field: a truncated level, an
\* empty string
TruncatedLevel == SubSeq(JSONStringify(LevelB), 1, 6)

\* <<accountId, symbol, side, levelIndex, raw value>>
StrategyInputs ==
  {<<"a1", "BTCUSDT", "buy", 1, TruncatedLevel>>,
   <<"a1", "BTCUSDT", "sell", 10, <<>>>>}

\* ------------------------------------------------------------------------
\* Equity history: one string key per (account, Date.now()), 7-day expiry
\* ------------------------------------------------------------------------
\* a number of milliseconds as one integer (instants of the first weeks
\* after the model's epoch, and durations)
Ms(w) == w.s * Limb + w.ms

\* variant: one day of retention
EquityTTLSeconds_Day == 24 * 60 * 60

EquityTTLSeconds == 7 * 24 * 60 * 60

EquityPattern(accountId) == <<"hypotom-monitor", ":", "equity", ":", accountId, ":">>

EquityKey(accountId, timestamp) == EquityPattern(accountId) \o NumToString(timestamp)

\* equity.toString() of a non-negative integer
EquityToString(equity) == NumToString(Num(equity))

\* parseFloat(value) of such a string; NaN when it has no leading digit
ParseFloat(value) ==
  IF DigitPrefixLen(value) = 0 THEN NaN
  ELSE DigitsToNum(SubSeq(value, 1, DigitPrefixLen(value)))

\* parseInt(parts[3]) of an equity key
EquityTimestamp(key) ==
  LET parts == Split(key, ":")
  IN IF Len(parts) < 4 THEN NaN ELSE ParseInt(parts[4])

Null == [null |-> TRUE]

\* closestKey before any key was kept (falsy, like null)
NoKey == <<>>

\* closestDiff: Infinity, or a finite number of milliseconds
Infinity == [finite |-> FALSE]

Finite(n) == [finite |-> TRUE, n |-> n]

HourMs == 60 * 60 * 1000

\* Math.abs
Abs(x) == IF x < 0 THEN 0 - x ELSE x

\* diff < closestDiff, closestDiff starting at Infinity
CloserThan(diff, closestDiff) == ~closestDiff.finite \/ diff < closestDiff.n

\* variant: the end of the window is exclusive
InSearchWindow_ExclusiveEnd(timestamp, searchStart, searchEnd) ==
  timestamp # NaN /\ Ms(timestamp) >= searchStart /\ Ms(timestamp) < searchEnd

\* timestamp >= searchStart && timestamp <= searchEnd (false for NaN)
InSearchWindow(timestamp, searchStart, searchEnd) ==
  timestamp # NaN /\ Ms(timestamp) >= searchStart /\ Ms(timestamp) <= searchEnd

\* the loop over keys[i..]: [closestKey, closestDiff] after it
RECURSIVE ClosestFrom(_, _, _, _, _)
ClosestFrom(keys, i, twentyFourHoursAgo, closestKey, closestDiff) ==
  IF i > Len(keys) THEN [closestKey |-> closestKey, closestDiff |-> closestDiff]
  ELSE LET timestamp == EquityTimestamp(keys[i])
           searchStart == twentyFourHoursAgo - HourMs
           searchEnd == twentyFourHoursAgo + HourMs
       IN IF /\ InSearchWindow(timestamp, searchStart, searchEnd)
             /\ CloserThan(Abs(Ms(timestamp) - twentyFourHoursAgo), closestDiff)
          THEN ClosestFrom(keys, i + 1, twentyFourHoursAgo, keys[i],
                           Finite(Abs(Ms(timestamp) - twentyFourHoursAgo)))
          ELSE ClosestFrom(keys, i + 1, twentyFourHoursAgo, closestKey, closestDiff)

\* getEquity24hAgo at instant t, `keys` being the reply of client.keys
\* (the matching keys in the order the store enumerates them)
GetEquity24hAgo(st, t, accountId, keys) ==
  IF Len(keys) = 0 THEN Null
  ELSE LET found == ClosestFrom(keys, 1, Ms(t) - 24 * HourMs, NoKey, Infinity)
       IN IF found.closestKey = NoKey THEN Null
          ELSE LET value == RedisGet(st, t, found.closestKey)
               IN IF Truthy(value) THEN ParseFloat(value.val) ELSE Null

\* the replies client.keys(pattern) can give: the live matching keys in any
\* order
KeysReplies(st, t, accountId) ==
  LET matching == RedisKeys(st, t, EquityPattern(accountId))
  IN {q \in [1..Cardinality(matching) -> matching] :
        \A i \in 1..Cardinality(matching), j \in 1..Cardinality(matching) :
          i # j => q[i] # q[j]}

\* the storeEquitySnapshot calls explored: <<accountId, equity>>
EquityInputs == {<<"a1", 0>>, <<"a1", 250>>, <<"a2", 300>>}

\* the instants the clock visits, as steps in milliseconds: 30 min, 2 h,
\* 25 h, 25 h + 1 ms, 7 days, 7 days + 30 min
EquityClock ==
  <<30 * 60 * 1000, 90 * 60 * 1000, 23 * HourMs, 1, 143 * HourMs - 1,
    30 * 60 * 1000>>

\* ------------------------------------------------------------------------
\* Monitor route: JavaScript values of raw exchange positions
\* ------------------------------------------------------------------------
\* numbers are counted in thousandths (1.327 is 1327)
Scale == 1000

JsUndefined == [t |-> "undefined"]

JsString(chars) == [t |-> "string", chars |-> chars]

JsNumber(milli) == [t |-> "number", nan |-> FALSE, milli |-> milli]

JsNaN == [t |-> "number", nan |-> TRUE, milli |-> 0]

\* pos.name: undefined for a property the object does not have
Field(pos, name) == IF name \in DOMAIN pos THEN pos[name] ELSE JsUndefined

\* undefined, "", 0 and NaN are falsy
Falsy(v) ==
  \/ v.t = "undefined"
  \/ (v.t = "string" /\ Len(v.chars) = 0)
  \/ (v.t = "number" /\ (v.nan \/ v.milli = 0))

\* a || b
Or(a, b) == IF Falsy(a) THEN b ELSE a

AllDigits(str) == \A i \in 1..Len(str) : IsDigit(str[i])

\* position of the first "." of str, 0 when there is none
RECURSIVE DotFrom(_, _)
DotFrom(str, i) ==
  IF i > Len(str) THEN 0 ELSE IF str[i] = "." THEN i ELSE DotFrom(str, i + 1)

\* the digits after the point as thousandths (up to three digits)
Thousandths(frac) ==
  DigitsVal(frac, Len(frac)) *
    (IF Len(frac) = 1 THEN 100 ELSE IF Len(frac) = 2 THEN 10 ELSE 1)

\* the value of an unsigned decimal literal: digits, optionally a point and
\* up to three more digits
UnsignedLiteral(str) ==
  LET dot == DotFrom(str, 1)
      whole == IF dot = 0 THEN str ELSE SubSeq(str, 1, dot - 1)
      frac == IF dot = 0 THEN <<>> ELSE SubSeq(str, dot + 1, Len(str))
  IN IF /\ AllDigits(whole) /\ AllDigits(frac)
        /\ Len(whole) + Len(frac) > 0 /\ Len(frac) <= 3
     THEN JsNumber(DigitsVal(whole, Len(whole)) * Scale + Thousandths(frac))
     ELSE JsNaN

\* Number(v): a number is itself, undefined is NaN, "" is 0, a string is
\* the decimal literal it spells, NaN when it spells none
ToNumber(v) ==
  IF v.t = "number" THEN v
  ELSE IF v.t = "undefined" THEN JsNaN
  ELSE IF Len(v.chars) = 0 THEN JsNumber(0)
  ELSE IF v.chars[1] = "-"
    THEN LET u == UnsignedLiteral(SubSeq(v.chars, 2, Len(v.chars)))
         IN IF u.nan THEN JsNaN ELSE JsNumber(0 - u.milli)
  ELSE UnsignedLiteral(v.chars)

\* Math.abs
MathAbs(x) == IF x.nan THEN JsNaN ELSE JsNumber(Abs(x.milli))

\* x * 100
Times100(x) == IF x.nan THEN JsNaN ELSE JsNumber(x.milli * 100)

\* variant: the side read from the sign, zero counted as LONG
Side_ZeroLong(amount) == IF ~amount.nan /\ amount.milli >= 0 THEN "LONG" ELSE "SHORT"

\* amount > 0 ? "LONG" : "SHORT" (NaN > 0 is false)
Side(amount) == IF ~amount.nan /\ amount.milli > 0 THEN "LONG" ELSE "SHORT"

\* the positions.map callback of processAsterdexAccount
NormalizeAsterdex(pos, symbol) ==
  LET posAmt == ToNumber(Or(Or(Field(pos, "positionAmt"), Field(pos, "pa")),
                            JsNumber(0)))
  IN [side |-> Side(posAmt),
      contracts |-> MathAbs(posAmt),
      avgPrice |-> ToNumber(Or(Or(Field(pos, "entryPrice"), Field(pos, "ep")),
                               JsNumber(0))),
      unrealizedPnL |->
        ToNumber(Or(Or(Or(Field(pos, "unRealizedProfit"),
                          Field(pos, "unrealizedProfit")),
                       Field(pos, "upl")),
                    JsNumber(0))),
      unrealizedPnLRatio |->
        Times100(ToNumber(Or(Or(Field(pos, "unRealizedProfitRatio"),
                                Field(pos, "uplRatio")),
                             JsNumber(0)))),
      leverage |-> ToNumber(Or(Or(Field(pos, "leverage"), Field(pos, "lever")),
                               JsNumber(1 * Scale))),
      notionalUsd |->
        MathAbs(ToNumber(Or(Or(Field(pos, "notional"), Field(pos, "notionalUsd")),
                            JsNumber(0)))),
      instId |-> symbol]

\* the positions.map callback of the OKX branch of GET
NormalizeOkx(pos) ==
  [side |-> Side(ToNumber(Field(pos, "pos"))),
   contracts |-> MathAbs(ToNumber(Field(pos, "pos"))),
   avgPrice |-> ToNumber(Field(pos, "avgPx")),
   unrealizedPnL |-> ToNumber(Field(pos, "upl")),
   unrealizedPnLRatio |-> Times100(ToNumber(Field(pos, "uplRatio"))),
   leverage |-> ToNumber(Field(pos, "lever")),
   notionalUsd |-> MathAbs(ToNumber(Field(pos, "notionalUsd"))),
   instId |-> Field(pos, "instId")]

\* one choice per field: a property with a value, or no property
Absent == <<>>

\* the raw positions explored: every combination of the choices per field
AsterdexAmounts ==
  {"positionAmt" :> JsString(<<"1", ".", "3", "2", "7">>),
   "positionAmt" :> JsString(<<"-", "0", ".", "5">>),
   "positionAmt" :> JsString(<<"0">>),
   "pa" :> JsString(<<"-", "2">>),
   "pa" :> JsNumber(3 * Scale)}

AsterdexRaws ==
  {amount @@ entry @@ upl @@ ratio @@ lever @@ notional :
     amount \in AsterdexAmounts,
     entry \in {Absent, "entryPrice" :> JsString(<<"1", "0", "0", ".", "5">>)},
     upl \in {Absent, "unRealizedProfit" :> JsString(<<"-", "4">>)},
     ratio \in {Absent, "uplRatio" :> JsString(<<"0", ".", "0", "2">>)},
     lever \in {Absent, "leverage" :> JsString(<<"5">>)},
     notional \in {Absent, "notional" :> JsString(<<"-", "1", "3", "2">>)}}

OkxAmounts ==
  {"pos" :> JsString(<<"1", ".", "3", "2", "7">>),
   "pos" :> JsString(<<"-", "0", ".", "5">>),
   "pos" :> JsString(<<"0">>)}

OkxRaws ==
  {("instId" :> JsString(<<"BTC-USDT-SWAP">>)) @@ amount @@ entry @@ upl
     @@ ratio @@ lever @@ notional :
     amount \in OkxAmounts,
     entry \in {Absent, "avgPx" :> JsString(<<"1", "0", "0", ".", "5">>)},
     upl \in {Absent, "upl" :> JsString(<<"-", "4">>)},
     ratio \in {Absent, "uplRatio" :> JsString(<<"0", ".", "0", "2">>)},
     lever \in {Absent, "lever" :> JsString(<<"5">>)},
     notional \in {Absent, "notionalUsd" :> JsString(<<"1", "3", "2">>)}}

\* ------------------------------------------------------------------------
\* Monitor route: convertSymbolFormat (symbols are sequences of characters)
\* ------------------------------------------------------------------------
\* the position at which `search` first occurs in str[i..], 0 when nowhere
RECURSIVE IndexFrom(_, _, _)
IndexFrom(str, search, i) ==
  IF i + Len(search) - 1 > Len(str) THEN 0
  ELSE IF SubSeq(str, i, i + Len(search) - 1) = search THEN i
  ELSE IndexFrom(str, search, i + 1)

\* str.includes(search)
Includes(str, search) == IndexFrom(str, search, 1) # 0

\* str.replace(search, by): the first occurrence only
Replace(str, search, by) ==
  LET at == IndexFrom(str, search, 1)
  IN IF at = 0 THEN str
     ELSE SubSeq(str, 1, at - 1) \o by \o SubSeq(str, at + Len(search), Len(str))

Hyphen == <<"-">>

USDT == <<"U", "S", "D", "T">>

DashSWAP == <<"-", "S", "W", "A", "P">>

DashUSDTDashSWAP == <<"-", "U", "S", "D", "T", "-", "S", "W", "A", "P">>

\* variant: the bare format without the quote asset
ConvertSymbolFormat_DropsQuote(symbol, targetExchange) ==
  IF targetExchange = "okx"
  THEN IF ~Includes(symbol, Hyphen) /\ EndsWith(symbol, USDT)
       THEN Replace(symbol, USDT, <<>>) \o DashUSDTDashSWAP
       ELSE symbol
  ELSE IF Includes(symbol, Hyphen) /\ EndsWith(symbol, DashSWAP)
       THEN Replace(symbol, DashUSDTDashSWAP, <<>>)
       ELSE symbol

\* variant: converts without looking at the format the symbol is in
ConvertSymbolFormat_Unguarded(symbol, targetExchange) ==
  IF targetExchange = "okx"
  THEN Replace(symbol, USDT, <<>>) \o DashUSDTDashSWAP
  ELSE Replace(symbol, DashUSDTDashSWAP, <<>>) \o USDT

ConvertSymbolFormat(symbol, targetExchange) ==
  IF targetExchange = "okx"
  THEN IF ~Includes(symbol, Hyphen) /\ EndsWith(symbol, USDT)
       THEN Replace(symbol, USDT, <<>>) \o DashUSDTDashSWAP
       ELSE symbol
  ELSE IF Includes(symbol, Hyphen) /\ EndsWith(symbol, DashSWAP)
       THEN Replace(symbol, DashUSDTDashSWAP, <<>>) \o USDT
       ELSE symbol

TargetExchanges == {"okx", "asterdex"}

\* the symbols explored
SymbolInputs ==
  {<<"B", "T", "C", "U", "S", "D", "T">>,
   <<"E", "T", "H", "U", "S", "D", "T">>,
   <<"U", "S", "D", "T", "U", "S", "D", "T">>,
   <<"U", "S", "D", "T">>,
   <<"B", "T", "C", "U", "S", "D">>,
   <<"B", "T", "C", "-", "U", "S", "D", "T", "-", "S", "W", "A", "P">>,
   <<"E", "T", "H", "-", "U", "S", "D", "T", "-", "S", "W", "A", "P">>,
   <<"B", "T", "C", "-", "U", "S", "D", "-", "S", "W", "A", "P">>,
   <<"B", "T", "C", "-", "U", "S", "D", "T">>,
   <<"-", "S", "W", "A", "P">>,
   <<"B", "T", "C", "-", "U", "S", "D", "T", "-", "S", "W", "A", "P", "-", "S", "W", "A", "P">>,
   <<"U", "S", "D", "T", "-", "U", "S", "D", "T", "-", "S", "W", "A", "P">>,
   <<"B", "T", "C", "-", "U", "S", "D", "T", "-", "S", "W", "A", "P", "U", "S", "D", "T">>,
   <<"U", "S", "U", "S", "D", "T">>,
   <<"U", "S", "D", "T", "X", "U", "S", "D", "T">>,
   <<"U", "S", "D", "-", "U", "S", "D", "T", "-", "S", "W", "A", "P">>,
   <<"U", "S", "D", "T", "X", "-", "U", "S", "D", "T", "-", "S", "W", "A", "P">>,
   <<"X", "-", "Y", "-", "U", "S", "D", "T", "-", "S", "W", "A", "P">>,
   <<"-", "U", "S", "D", "T", "-", "S", "W", "A", "P">>,
   <<>>}

\* ------------------------------------------------------------------------
\* Collection jobs: the account registry, credentials, exchange replies
\* ------------------------------------------------------------------------
\* a registry row: credentials are kept as present / absent, exchange ""
\* is a row without the exchange column
Row(id, exchange, key, secret, passphrase) ==
  [id |-> id, exchange |-> exchange, symbol |-> "BTCUSDT", api_key |-> key,
   api_secret |-> secret, api_passphrase |-> passphrase]

\* the replies of fetchItems("trading_accounts") explored
Registries ==
  {<<Row("a1", "okx", TRUE, TRUE, TRUE), Row("a2", "asterdex", TRUE, TRUE, FALSE),
     Row("a3", "", TRUE, TRUE, TRUE)>>,
   <<Row("a1", "okx", TRUE, TRUE, FALSE), Row("a2", "asterdex", FALSE, FALSE, FALSE),
     Row("a3", "okx", TRUE, TRUE, TRUE)>>,
   <<Row("a1", "asterdex", TRUE, TRUE, TRUE), Row("a2", "", FALSE, TRUE, TRUE)>>,
   <<>>}

\* process.env: the OKX_* variables all set, or none
Envs ==
  {[OKX_API_KEY |-> FALSE, OKX_API_SECRET |-> FALSE, OKX_PASSPHRASE |-> FALSE],
   [OKX_API_KEY |-> TRUE, OKX_API_SECRET |-> TRUE, OKX_PASSPHRASE |-> TRUE]}

\* account.exchange || "okx"
ExchangeOf(account) == IF account.exchange = "" THEN "okx" ELSE account.exchange

\* !apiKey || !apiSecret (|| !passphrase for OKX), each of them
\* account.api_* || process.env.OKX_*
MissingCredentials(account, env) ==
  \/ ~(account.api_key \/ env.OKX_API_KEY)
  \/ ~(account.api_secret \/ env.OKX_API_SECRET)
  \/ (ExchangeOf(account) # "asterdex"
        /\ ~(account.api_passphrase \/ env.OKX_PASSPHRASE))

\* what an awaited exchange call can do: resolve with a reply or reject
\* (network error, timeout of the HTTP client, 401, 429)
OkxBalanceReplies ==
  {[kind |-> "resolves", code |-> "0", data |-> <<[totalEq |-> 250]>>],
   [kind |-> "resolves", code |-> "0", data |-> <<>>],
   [kind |-> "resolves", code |-> "50011", data |-> <<>>],
   [kind |-> "rejects", message |-> "timeout"]}

AsterdexBalanceReplies ==
  {[kind |-> "resolves", data |-> <<[asset |-> "USDT", balance |-> 300]>>],
   [kind |-> "resolves", data |-> <<[asset |-> "BNB", balance |-> 7]>>],
   [kind |-> "rejects", message |-> "timeout"]}

BalanceReplies(exchange) ==
  IF exchange = "asterdex" THEN AsterdexBalanceReplies ELSE OkxBalanceReplies

\* getOKXAccountBalance: { totalEquity } or null, a rejection is caught
GetOKXAccountBalance(reply) ==
  IF reply.kind = "rejects" THEN Null
  ELSE IF reply.code = "0" /\ Len(reply.data) > 0
    THEN [totalEquity |-> reply.data[1].totalEq]
  ELSE Null

\* getAsterdexAccountBalance: the USDT balance, 0 without one; a rejection
\* is caught
GetAsterdexAccountBalance(reply) ==
  IF reply.kind = "rejects" THEN Null
  ELSE LET usdt == {i \in 1..Len(reply.data) : reply.data[i].asset = "USDT"}
       IN IF usdt = {} THEN [totalEquity |-> 0]
          ELSE [totalEquity |-> reply.data[CHOOSE i \in usdt : \A j \in usdt : i <= j].balance]

GetAccountBalance(exchange, reply) ==
  IF exchange = "asterdex" THEN GetAsterdexAccountBalance(reply)
  ELSE GetOKXAccountBalance(reply)

\* what the positions job reads from an exchange: a resolved reply with
\* the rows, a resolved error reply, or a rejected call
FetchReplies ==
  {[kind |-> "resolves", code |-> "0", data |-> JArr(<<PayloadB>>)],
   [kind |-> "resolves", code |-> "50011", data |-> JArr(<<>>)],
   [kind |-> "rejects", message |-> "timeout"]}

\* getPendingOrders, getUserTrades and getIncomeHistory: rows, or rejected
ListReplies == {reply \in FetchReplies : reply.kind = "rejects" \/ reply.code = "0"}

\* the rows kept of a resolved reply (OKX: code "0" with data, else [])
RowsOf(reply) == IF reply.code = "0" THEN reply.data ELSE JArr(<<>>)

\* the payload handed to a store function
SnapshotPayload(exchange, name, rows) ==
  JObj(<<<<"exchange", JStr(exchange)>>, <<name, rows>>>>)

\* a store function called at instant t: both writes, or the first only
\* when the second is rejected, or none when the first is rejected
StoreOutcomes == {"stored", "rejects-first", "rejects-second"}

StoreSnapshot(st, t, kind, acct, payload, outcome) ==
  LET first == WriteKey(st, t, kind, HistoryKey(kind, acct, t), HistoryValue(payload))
  IN IF outcome = "rejects-first" THEN st
     ELSE IF outcome = "rejects-second" THEN first
     ELSE WriteKey(first, t, kind, LatestKey(kind, acct), LatestValue(t, payload))

\* the awaits of the positions job on an exchange, and on the store
ExchangeSteps == {"balance", "positions", "orders", "trades"}

\* the step after a step of the positions job that went through
StepAfter(step, exchange) ==
  CASE step = "positions" -> "orders"
    [] step = "orders" -> IF exchange = "asterdex" THEN "trades" ELSE "store-positions"
    [] step = "trades" -> "store-positions"
    [] step = "store-positions" -> "store-orders"
    [] step = "store-orders" -> IF exchange = "asterdex" THEN "store-trades" ELSE "push"
    [] step = "store-trades" -> "push"

KindStored(step) ==
  CASE step = "store-positions" -> "positions"
    [] step = "store-orders" -> "orders"
    [] step = "store-trades" -> "trades"

\* the variables of the loop body, at the start of an iteration
NothingFetched == [kind \in Kinds |-> JArr(<<>>)]

\* variant: an entry that reports a failure ends the run
Push_StopOnFailure(j, entry, outcome) ==
  IF outcome \in {"exchange-failed", "store-failed"}
  THEN [j EXCEPT !.pc = "done", !.response = [status |-> 500],
                 !.outcome = [@ EXCEPT ![j.i] = outcome]]
  ELSE [j EXCEPT !.results = Append(@, entry), !.i = @ + 1, !.pc = "loop",
                 !.balance = Null, !.fetched = NothingFetched,
                 !.outcome = [@ EXCEPT ![j.i] = outcome]]

\* results.push(entry) and on to the next account (`outcome` records what
\* happened to the account)
Push(j, entry, outcome) ==
  [j EXCEPT !.results = Append(@, entry), !.i = @ + 1, !.pc = "loop",
            !.balance = Null, !.fetched = NothingFetched,
            !.outcome = [@ EXCEPT ![j.i] = outcome]]

\* `continue` without an entry
Continue(j, outcome) ==
  [j EXCEPT !.i = @ + 1, !.pc = "loop", !.outcome = [@ EXCEPT ![j.i] = outcome]]

JobKinds == {"equity", "positions"}

NoResponse == [status |-> 0]

\* ------------------------------------------------------------------------
\* State
\* ------------------------------------------------------------------------
VARIABLES
  now,       \* the wall clock read by Date.now() and by the store
  kv,        \* the string keyspace of the store: key -> [val, exp]
  calls,     \* the store call each caller has in flight
  log,       \* history: per (kind, account), the store calls that ended
  writes,    \* history: per (kind, account), the historical-key writes
  nStores,   \* number of store calls started
  nDayTicks, \* number of day-sized clock steps taken
  hashes,    \* the hash keyspace of the store: key -> <<[field, value]>>
  gridLog,   \* history: the grid-level operations that ended
  nGridOps,  \* number of grid-level operations started
  clearCall, \* the clearGridLevels call without side that is in flight
  samples,   \* history: the equity samples stored, in order
  nRecords,  \* number of storeEquitySnapshot calls made
  nEquityTicks, \* number of steps of EquityClock taken
  normalized, \* the last position normalized: exchange, raw, canonical
  converted, \* the last symbol converted: symbol, target, once, twice
  job,       \* the collection run: registry, position in the loop, results
  close,     \* the close-position request: input, position in the handler
  api,       \* the Read API request: input, position in the handler
  reader,    \* the getGridLevelsBothSides call in flight: the sides read
  chunks     \* the trade-history chunk loop: bounds, position, requests

snapVars == <<now, kv, calls, log, writes, nStores, nDayTicks>>

gridVars == <<hashes, gridLog, nGridOps, clearCall>>

equityVars == <<samples, nRecords, nEquityTicks>>

routeVars == <<normalized, converted>>

NoCall == [called |-> FALSE]

apiVars == <<api, reader, chunks>>

opsVars == <<job, close, api, reader, chunks>>

NoJob == [pc |-> "none"]

NoRequest == [pc |-> "none"]

vars ==
  <<now, kv, calls, log, writes, nStores, nDayTicks, hashes, gridLog, nGridOps,
    clearCall, samples, nRecords, nEquityTicks, normalized, converted, job,
    close, api, reader, chunks>>

Idle == [pc |-> "idle"]

DaySeconds == 24 * 60 * 60

\* sizes, in days, of the clock steps taken between calls
DaySteps == {1, 29}

InFlight(kind, acct) ==
  {c \in DOMAIN calls :
     calls[c].pc # "idle" /\ calls[c].kind = kind /\ calls[c].acct = acct}

Init ==
  /\ now = Num(0)
  /\ kv = <<>>
  /\ calls = [c \in Callers |-> Idle]
  /\ log = [ka \in Kinds \X Accounts |-> <<>>]
  /\ writes = [ka \in Kinds \X Accounts |-> <<>>]
  /\ nStores = 0
  /\ nDayTicks = 0
  /\ hashes = <<>>
  /\ gridLog = <<>>
  /\ nGridOps = 0
  /\ clearCall = Idle
  /\ samples = <<>>
  /\ nRecords = 0
  /\ nEquityTicks = 0
  /\ normalized = NoCall
  /\ converted = NoCall
  /\ api = NoRequest
  /\ reader = Idle
  /\ chunks = NoRequest
  /\ job = NoJob
  /\ close = NoRequest

\* ------------------------------------------------------------------------
\* storePositionsSnapshot / storeOrdersSnapshot / storeTradeHistorySnapshot
\* One call is three steps: Date.now(), the awaited write of the historical
\* key, the awaited write of the "latest" key.  A write that fails rejects
\* the await, which ends the call with the exception (the functions have no
\* try/catch); a failed write leaves the store as it was.  The call returns
\* with its second write.
\* ------------------------------------------------------------------------
EndCall(c, how, stage) ==
  /\ calls' = [calls EXCEPT ![c] = Idle]
  /\ log' = [log EXCEPT ![<<calls[c].kind, calls[c].acct>>] =
               Append(@, [timestamp |-> calls[c].timestamp,
                          payload |-> calls[c].payload,
                          end |-> how,
                          stage |-> stage,
                          overlapped |-> calls[c].overlapped,
                          at |-> now])]

StoreBegin(c, kind, acct, payload) ==
  /\ calls[c].pc = "idle"
  /\ nStores < MaxStores
  /\ nStores' = nStores + 1
  /\ calls' = [d \in DOMAIN calls |->
                 IF d = c
                 THEN [pc |-> "history", kind |-> kind, acct |-> acct,
                       payload |-> payload, timestamp |-> now,
                       overlapped |-> InFlight(kind, acct) # {}]
                 ELSE IF d \in InFlight(kind, acct)
                 THEN [calls[d] EXCEPT !.overlapped = TRUE]
                 ELSE calls[d]]
  /\ UNCHANGED <<now, kv, log, writes, nDayTicks>>
  /\ UNCHANGED <<gridVars, equityVars, routeVars, opsVars>>

StoreHistoryWrite(c) ==
  /\ calls[c].pc = "history"
  /\ kv' = WriteKey(kv, now, calls[c].kind,
                    HistoryKey(calls[c].kind, calls[c].acct, calls[c].timestamp),
                    HistoryValue(calls[c].payload))
  /\ calls' = [calls EXCEPT ![c].pc = "latest"]
  /\ writes' = [writes EXCEPT ![<<calls[c].kind, calls[c].acct>>] =
                  Append(@, [timestamp |-> calls[c].timestamp,
                             payload |-> calls[c].payload,
                             at |-> now])]
  /\ UNCHANGED <<now, log, nStores, nDayTicks>>
  /\ UNCHANGED <<gridVars, equityVars, routeVars, opsVars>>

StoreHistoryFail(c) ==
  /\ calls[c].pc = "history"
  /\ EndCall(c, "threw", "history")
  /\ UNCHANGED <<now, kv, writes, nStores, nDayTicks>>
  /\ UNCHANGED <<gridVars, equityVars, routeVars, opsVars>>

StoreLatestWrite(c) ==
  /\ calls[c].pc = "latest"
  /\ kv' = WriteKey(kv, now, calls[c].kind,
                    LatestKey(calls[c].kind, calls[c].acct),
                    LatestValue(calls[c].timestamp, calls[c].payload))
  /\ EndCall(c, "returned", "latest")
  /\ UNCHANGED <<now, writes, nStores, nDayTicks>>
  /\ UNCHANGED <<gridVars, equityVars, routeVars, opsVars>>

StoreLatestFail(c) ==
  /\ calls[c].pc = "latest"
  /\ EndCall(c, "threw", "latest")
  /\ UNCHANGED <<now, kv, writes, nStores, nDayTicks>>
  /\ UNCHANGED <<gridVars, equityVars, routeVars, opsVars>>

\* the clock, at two granularities: milliseconds pass at any point of a
\* call; days pass between calls (an awaited store command is answered or
\* failed within its retry budget)
TickMs ==
  /\ now.ms < MaxMs
  /\ now' = NumAdd(now, Num(1))
  /\ UNCHANGED <<kv, calls, log, writes, nStores, nDayTicks>>
  /\ UNCHANGED <<gridVars, equityVars, routeVars, opsVars>>

TickDays(d) ==
  /\ \A c \in DOMAIN calls : calls[c].pc = "idle"
  /\ nDayTicks < MaxDayTicks
  /\ now' = NumAdd(now, SecToMs(d * DaySeconds))
  /\ nDayTicks' = nDayTicks + 1
  /\ UNCHANGED <<kv, calls, log, writes, nStores>>
  /\ UNCHANGED <<gridVars, equityVars, routeVars, opsVars>>

\* store calls on the millisecond time scale
Next ==
  \/ \E c \in Callers, i \in StoreInputs : StoreBegin(c, i[1], i[2], i[3])
  \/ \E c \in Callers : StoreHistoryWrite(c)
  \/ \E c \in Callers : StoreHistoryFail(c)
  \/ \E c \in Callers : StoreLatestWrite(c)
  \/ \E c \in Callers : StoreLatestFail(c)
  \/ TickMs

Spec == Init /\ [][Next]_vars

\* store calls on the retention time scale; a call that fails here fails
\* between its two writes (a call whose first write fails leaves the store
\* as it was)
AgingNext ==
  \/ \E c \in Callers, i \in StoreInputs : StoreBegin(c, i[1], i[2], i[3])
  \/ \E c \in Callers : StoreHistoryWrite(c)
  \/ \E c \in Callers : StoreLatestWrite(c)
  \/ \E c \in Callers : StoreLatestFail(c)
  \/ \E d \in DaySteps : TickDays(d)

AgingSpec == Init /\ [][AgingNext]_vars

\* ------------------------------------------------------------------------
\* setGridLevel, and the strategy process that writes the same hashes.
\* A call is one awaited HSET; a rejected HSET ends the call with the
\* exception and leaves the hash as it was.
\* ------------------------------------------------------------------------
GridOp(op, how, accountId, symbol, side, levelIndex, level, value) ==
  [op |-> op, end |-> how, account |-> accountId, symbol |-> symbol,
   side |-> side, index |-> levelIndex, level |-> level, value |-> value]

SetGridLevel(accountId, symbol, side, levelIndex, level, exchange) ==
  /\ nGridOps < MaxGridOps
  /\ nGridOps' = nGridOps + 1
  /\ hashes' = HSet(hashes, GridKey(accountId, symbol, side, exchange),
                    LevelField(levelIndex), JSONStringify(level))
  /\ gridLog' = Append(gridLog,
                  GridOp("setLevel", "returned", accountId, symbol, side,
                         levelIndex, level, JSONStringify(level)))
  /\ UNCHANGED <<clearCall, snapVars, equityVars, routeVars, opsVars>>

SetGridLevelFail(accountId, symbol, side, levelIndex, level, exchange) ==
  /\ nGridOps < MaxGridOps
  /\ nGridOps' = nGridOps + 1
  /\ gridLog' = Append(gridLog,
                  GridOp("setLevel", "threw", accountId, symbol, side,
                         levelIndex, level, JSONStringify(level)))
  /\ UNCHANGED <<hashes, clearCall, snapVars, equityVars, routeVars, opsVars>>

\* the strategy process stores a raw value under a level field
StrategyWrite(accountId, symbol, side, levelIndex, raw, exchange) ==
  /\ nGridOps < MaxGridOps
  /\ nGridOps' = nGridOps + 1
  /\ hashes' = HSet(hashes, GridKey(accountId, symbol, side, exchange),
                    LevelField(levelIndex), raw)
  /\ gridLog' = Append(gridLog,
                  GridOp("strategy", "returned", accountId, symbol, side,
                         levelIndex, JNull, raw))
  /\ UNCHANGED <<clearCall, snapVars, equityVars, routeVars, opsVars>>

GridNext ==
  \/ \E i \in SetLevelInputs, e \in Exchanges :
       SetGridLevel(i[1], i[2], i[3], i[4], i[5], e)
  \/ \E i \in SetLevelInputs, e \in Exchanges :
       SetGridLevelFail(i[1], i[2], i[3], i[4], i[5], e)
  \/ \E i \in StrategyInputs, e \in Exchanges :
       StrategyWrite(i[1], i[2], i[3], i[4], i[5], e)

GridSpec == Init /\ [][GridNext]_vars

\* ------------------------------------------------------------------------
\* deleteGridLevel and clearGridLevels (POST delete-grid-level), on grids
\* that already hold a ladder.  deleteGridLevel is one awaited HDEL;
\* clearGridLevels with a side is one awaited DEL; without a side it is
\* two awaited DELs, BUY then SELL, and other requests and the strategy
\* process run between the two.  A rejected command ends the call with
\* the exception and leaves the store as it was.
\* ------------------------------------------------------------------------
\* the ladder the grids hold at the start: <<accountId, symbol, side,
\* levelIndex, level>>, in the order written
SeedLevels ==
  <<<<"a1", "BTCUSDT", "buy", 2, LevelA>>, <<"a1", "BTCUSDT", "buy", 10, LevelB>>,
    <<"a1", "BTCUSDT", "sell", 2, LevelB>>, <<"a2", "BTCUSDT", "buy", 2, LevelB>>,
    <<"a1", "ETHUSDT", "sell", 2, LevelA>>>>

RECURSIVE SeedHashes(_)
SeedHashes(n) ==
  IF n = 0 THEN <<>>
  ELSE HSet(SeedHashes(n - 1),
            GridKey(SeedLevels[n][1], SeedLevels[n][2], SeedLevels[n][3], "asterdex"),
            LevelField(SeedLevels[n][4]), JSONStringify(SeedLevels[n][5]))

SeedLog ==
  [n \in 1..Len(SeedLevels) |->
     GridOp("setLevel", "returned", SeedLevels[n][1], SeedLevels[n][2],
            SeedLevels[n][3], SeedLevels[n][4], SeedLevels[n][5],
            JSONStringify(SeedLevels[n][5]))]

EditInit ==
  /\ now = Num(0)
  /\ kv = <<>>
  /\ calls = [c \in Callers |-> Idle]
  /\ log = [ka \in Kinds \X Accounts |-> <<>>]
  /\ writes = [ka \in Kinds \X Accounts |-> <<>>]
  /\ nStores = 0
  /\ nDayTicks = 0
  /\ hashes = SeedHashes(Len(SeedLevels))
  /\ gridLog = SeedLog
  /\ nGridOps = 0
  /\ clearCall = Idle
  /\ samples = <<>>
  /\ nRecords = 0
  /\ nEquityTicks = 0
  /\ normalized = NoCall
  /\ converted = NoCall
  /\ api = NoRequest
  /\ reader = Idle
  /\ chunks = NoRequest
  /\ job = NoJob
  /\ close = NoRequest

\* levels written while the requests run
EditSetInputs ==
  {<<"a1", "BTCUSDT", "buy", 2, LevelB>>, <<"a1", "BTCUSDT", "sell", 3, LevelA>>}

\* <<accountId, symbol, side, levelIndex>> of the deleteGridLevel requests
DeleteInputs ==
  {<<"a1", "BTCUSDT", "buy", 2>>, <<"a1", "BTCUSDT", "buy", 3>>,
   <<"a1", "BTCUSDT", "sell", 2>>}

\* <<accountId, symbol, side>> of the clearGridLevels requests with a side
ClearSideInputs == {<<"a1", "BTCUSDT", "buy">>, <<"a1", "BTCUSDT", "sell">>}

\* <<accountId, symbol>> of the clearGridLevels requests without a side
ClearBothInputs == {<<"a1", "BTCUSDT">>}

DeleteGridLevel(accountId, symbol, side, levelIndex, exchange) ==
  /\ nGridOps < MaxGridOps
  /\ nGridOps' = nGridOps + 1
  /\ hashes' = HDel(hashes, GridKey(accountId, symbol, side, exchange),
                    LevelField(levelIndex))
  /\ gridLog' = Append(gridLog,
                  GridOp("deleteLevel", "returned", accountId, symbol, side,
                         levelIndex, JNull, <<>>))
  /\ UNCHANGED <<clearCall, snapVars, equityVars, routeVars, opsVars>>

DeleteGridLevelFail(accountId, symbol, side, levelIndex, exchange) ==
  /\ nGridOps < MaxGridOps
  /\ nGridOps' = nGridOps + 1
  /\ gridLog' = Append(gridLog,
                  GridOp("deleteLevel", "threw", accountId, symbol, side,
                         levelIndex, JNull, <<>>))
  /\ UNCHANGED <<hashes, clearCall, snapVars, equityVars, routeVars, opsVars>>

\* clearGridLevels(accountId, symbol, side)
ClearSide(accountId, symbol, side, exchange) ==
  /\ nGridOps < MaxGridOps
  /\ nGridOps' = nGridOps + 1
  /\ hashes' = Del(hashes, GridKey(accountId, symbol, side, exchange))
  /\ gridLog' = Append(gridLog,
                  GridOp("clearSide", "returned", accountId, symbol, side,
                         0, JNull, <<>>))
  /\ UNCHANGED <<clearCall, snapVars, equityVars, routeVars, opsVars>>

\* clearGridLevels(accountId, symbol): the first DEL
ClearBuy(accountId, symbol, exchange) ==
  /\ clearCall = Idle
  /\ nGridOps < MaxGridOps
  /\ nGridOps' = nGridOps + 1
  /\ hashes' = Del(hashes, GridKey(accountId, symbol, "buy", exchange))
  /\ gridLog' = Append(gridLog,
                  GridOp("clearBuy", "returned", accountId, symbol, "buy",
                         0, JNull, <<>>))
  /\ clearCall' = [pc |-> "sell", account |-> accountId, symbol |-> symbol,
                   exchange |-> exchange]
  /\ UNCHANGED <<snapVars, equityVars, routeVars, opsVars>>

ClearBuyFail(accountId, symbol, exchange) ==
  /\ clearCall = Idle
  /\ nGridOps < MaxGridOps
  /\ nGridOps' = nGridOps + 1
  /\ gridLog' = Append(gridLog,
                  GridOp("clearBuy", "threw", accountId, symbol, "buy",
                         0, JNull, <<>>))
  /\ UNCHANGED <<hashes, clearCall, snapVars, equityVars, routeVars, opsVars>>

\* clearGridLevels(accountId, symbol): the second DEL, and the return
ClearSell ==
  /\ clearCall # Idle
  /\ hashes' = Del(hashes, GridKey(clearCall.account, clearCall.symbol, "sell",
                                   clearCall.exchange))
  /\ gridLog' = Append(gridLog,
                  GridOp("clearSell", "returned", clearCall.account,
                         clearCall.symbol, "sell", 0, JNull, <<>>))
  /\ clearCall' = Idle
  /\ UNCHANGED <<nGridOps, snapVars, equityVars, routeVars, opsVars>>

ClearSellFail ==
  /\ clearCall # Idle
  /\ gridLog' = Append(gridLog,
                  GridOp("clearSell", "threw", clearCall.account,
                         clearCall.symbol, "sell", 0, JNull, <<>>))
  /\ clearCall' = Idle
  /\ UNCHANGED <<hashes, nGridOps, snapVars, equityVars, routeVars, opsVars>>

GridEditNext ==
  \/ \E i \in EditSetInputs, e \in Exchanges :
       SetGridLevel(i[1], i[2], i[3], i[4], i[5], e)
  \/ \E i \in DeleteInputs, e \in Exchanges :
       DeleteGridLevel(i[1], i[2], i[3], i[4], e)
  \/ \E i \in DeleteInputs, e \in Exchanges :
       DeleteGridLevelFail(i[1], i[2], i[3], i[4], e)
  \/ \E i \in ClearSideInputs, e \in Exchanges : ClearSide(i[1], i[2], i[3], e)
  \/ \E i \in ClearBothInputs, e \in Exchanges : ClearBuy(i[1], i[2], e)
  \/ \E i \in ClearBothInputs, e \in Exchanges : ClearBuyFail(i[1], i[2], e)
  \/ ClearSell
  \/ ClearSellFail

GridEditSpec == EditInit /\ [][GridEditNext]_vars

\* ------------------------------------------------------------------------
\* storeEquitySnapshot: Date.now() and one awaited SETEX (a rejected SETEX
\* ends the call with the exception and stores nothing)
\* ------------------------------------------------------------------------
StoreEquitySnapshot(accountId, equity) ==
  /\ nRecords < MaxRecords
  /\ nRecords' = nRecords + 1
  /\ kv' = RedisSetex(kv, now, EquityKey(accountId, now), EquityTTLSeconds,
                      EquityToString(equity))
  /\ samples' = Append(samples, [account |-> accountId, equity |-> equity,
                                 timestamp |-> now])
  /\ UNCHANGED <<now, calls, log, writes, nStores, nDayTicks, nEquityTicks, gridVars, routeVars, opsVars>>

StoreEquitySnapshotFail(accountId, equity) ==
  /\ nRecords < MaxRecords
  /\ UNCHANGED vars

\* the clock moves to the next instant of EquityClock
EquityTick ==
  /\ nEquityTicks < Len(EquityClock)
  /\ nEquityTicks' = nEquityTicks + 1
  /\ now' = NumAdd(now, [s |-> EquityClock[nEquityTicks + 1] \div Limb,
                         ms |-> EquityClock[nEquityTicks + 1] % Limb])
  /\ UNCHANGED <<kv, calls, log, writes, nStores, nDayTicks, samples, nRecords, gridVars, routeVars, opsVars>>

EquityNext ==
  \/ \E i \in EquityInputs : StoreEquitySnapshot(i[1], i[2])
  \/ \E i \in EquityInputs : StoreEquitySnapshotFail(i[1], i[2])
  \/ EquityTick

EquitySpec == Init /\ [][EquityNext]_vars

\* ------------------------------------------------------------------------
\* Monitor route: one call per behaviour, a position normalized or a symbol
\* converted (and the result converted again, to the same format and back)
\* ------------------------------------------------------------------------
MapAsterdexPosition(pos, symbol) ==
  /\ ~normalized.called /\ ~converted.called
  /\ normalized' = [called |-> TRUE, exchange |-> "asterdex", raw |-> pos,
                    canonical |-> NormalizeAsterdex(pos, symbol)]
  /\ UNCHANGED <<converted, snapVars, gridVars, equityVars, opsVars>>

MapOkxPosition(pos) ==
  /\ ~normalized.called /\ ~converted.called
  /\ normalized' = [called |-> TRUE, exchange |-> "okx", raw |-> pos,
                    canonical |-> NormalizeOkx(pos)]
  /\ UNCHANGED <<converted, snapVars, gridVars, equityVars, opsVars>>

ConvertSymbol(symbol, targetExchange) ==
  /\ ~normalized.called /\ ~converted.called
  /\ converted' =
       [called |-> TRUE, symbol |-> symbol, target |-> targetExchange,
        once |-> ConvertSymbolFormat(symbol, targetExchange),
        twice |-> ConvertSymbolFormat(ConvertSymbolFormat(symbol, targetExchange),
                                      targetExchange),
        back |-> ConvertSymbolFormat(ConvertSymbolFormat(symbol, targetExchange),
                                     IF targetExchange = "okx" THEN "asterdex"
                                     ELSE "okx")]
  /\ UNCHANGED <<normalized, snapVars, gridVars, equityVars, opsVars>>

RouteNext ==
  \/ \E pos \in AsterdexRaws : MapAsterdexPosition(pos, <<"BTCUSDT">>)
  \/ \E pos \in OkxRaws : MapOkxPosition(pos)
  \/ \E symbol \in SymbolInputs, targetExchange \in TargetExchanges :
       ConvertSymbol(symbol, targetExchange)

RouteSpec == Init /\ [][RouteNext]_vars

\* ------------------------------------------------------------------------
\* Collection jobs: GET of the equity snapshot job and of the positions
\* snapshot job, one run per behaviour, one step per await
\* ------------------------------------------------------------------------
CollectInit ==
  /\ now = Num(0)
  /\ kv = <<>>
  /\ calls = [c \in Callers |-> Idle]
  /\ log = [ka \in Kinds \X Accounts |-> <<>>]
  /\ writes = [ka \in Kinds \X Accounts |-> <<>>]
  /\ nStores = 0
  /\ nDayTicks = 0
  /\ hashes = <<>>
  /\ gridLog = <<>>
  /\ nGridOps = 0
  /\ clearCall = Idle
  /\ samples = <<>>
  /\ nRecords = 0
  /\ nEquityTicks = 0
  /\ normalized = NoCall
  /\ converted = NoCall
  /\ api = NoRequest
  /\ reader = Idle
  /\ chunks = NoRequest
  /\ close = NoRequest
  /\ job \in {[pc |-> "idle", kind |-> "none", registry |-> registry, env |-> env,
               i |-> 0, results |-> <<>>, calls |-> <<>>, balance |-> Null,
               fetched |-> NothingFetched,
               outcome |-> [k \in 1..Len(registry) |-> "none"],
               response |-> NoResponse] :
                registry \in Registries, env \in Envs}

Account == job.registry[job.i]

JobStays == UNCHANGED <<snapVars, gridVars, equityVars, routeVars, close, apiVars>>

\* fetchItems resolves with the registry
StartJob(kind) ==
  /\ job.pc = "idle"
  /\ job' = [job EXCEPT !.pc = "loop", !.kind = kind, !.i = 1]
  /\ JobStays

\* fetchItems rejects: the outer catch answers 500
FetchAccountsFail(kind) ==
  /\ job.pc = "idle"
  /\ job' = [job EXCEPT !.pc = "done", !.kind = kind, !.response = [status |-> 500]]
  /\ JobStays

\* the loop is over: the aggregate response
JobRespond ==
  /\ job.pc = "loop"
  /\ job.i > Len(job.registry)
  /\ job' = [job EXCEPT !.pc = "done",
                        !.response = [status |-> 200, total |-> Len(job.registry),
                                      results |-> job.results]]
  /\ JobStays

\* missing credentials: the equity job pushes a skipped entry, the
\* positions job continues without one
SkipAccount ==
  /\ job.pc = "loop"
  /\ job.i <= Len(job.registry)
  /\ MissingCredentials(Account, job.env)
  /\ job' = IF job.kind = "equity"
            THEN Push(job, [accountId |-> Account.id, status |-> "skipped",
                            reason |-> "Missing credentials"], "skipped")
            ELSE Continue(job, "skipped")
  /\ JobStays

\* the first exchange call of the account
CallExchange ==
  /\ job.pc = "loop"
  /\ job.i <= Len(job.registry)
  /\ ~MissingCredentials(Account, job.env)
  /\ job' = [job EXCEPT
               !.pc = IF job.kind = "equity" THEN "balance" ELSE "positions",
               !.calls = Append(@, [account |-> Account.id,
                                    call |-> IF job.kind = "equity"
                                             THEN "getAccountBalance"
                                             ELSE "getPositions"])]
  /\ JobStays

\* an exchange call that never settles
ExchangeHang ==
  /\ job.pc \in ExchangeSteps
  /\ job' = [job EXCEPT !.pc = "hung"]
  /\ JobStays

\* equity job: the balance call settles
BalanceReply(reply) ==
  /\ job.pc = "balance"
  /\ reply \in BalanceReplies(ExchangeOf(Account))
  /\ LET balance == GetAccountBalance(ExchangeOf(Account), reply)
     IN job' = IF balance # Null
               THEN [job EXCEPT !.pc = "store-equity", !.balance = balance]
               ELSE Push(job, [accountId |-> Account.id, status |-> "failed",
                               reason |-> "Failed to get balance"],
                         "exchange-failed")
  /\ JobStays

\* equity job: storeEquitySnapshot resolves
StoreEquity ==
  /\ job.pc = "store-equity"
  /\ kv' = RedisSetex(kv, now, EquityKey(Account.id, now), EquityTTLSeconds,
                      EquityToString(job.balance.totalEquity))
  /\ samples' = Append(samples, [account |-> Account.id,
                                 equity |-> job.balance.totalEquity,
                                 timestamp |-> now])
  /\ job' = Push(job, [accountId |-> Account.id, status |-> "success",
                       equity |-> job.balance.totalEquity], "stored")
  /\ UNCHANGED <<now, calls, log, writes, nStores, nDayTicks, nRecords,
                 nEquityTicks, gridVars, routeVars, close, apiVars>>

\* equity job: storeEquitySnapshot rejects, the catch of the loop body
StoreEquityFail ==
  /\ job.pc = "store-equity"
  /\ job' = Push(job, [accountId |-> Account.id, status |-> "error",
                       error |-> "store unreachable"], "store-failed")
  /\ JobStays

\* positions job: getPositions / getPendingOrders settles
FetchReply(reply) ==
  /\ job.pc \in {"positions", "orders"}
  /\ job.pc = "orders" => reply \in ListReplies
  /\ job' =
       IF reply.kind = "rejects"
       THEN Push(job, [accountId |-> Account.id, success |-> FALSE,
                       error |-> reply.message], "exchange-failed")
       ELSE [job EXCEPT
               !.pc = StepAfter(job.pc, ExchangeOf(Account)),
               !.fetched = [@ EXCEPT ![job.pc] = RowsOf(reply)],
               !.calls = IF StepAfter(job.pc, ExchangeOf(Account)) \in ExchangeSteps
                         THEN Append(@, [account |-> Account.id,
                                         call |-> StepAfter(job.pc, ExchangeOf(Account))])
                         ELSE @]
  /\ JobStays

\* positions job, AsterDex: getUserTrades and getIncomeHistory; a rejection
\* is caught by the inner try and the run goes on with what was fetched
TradesReply(reply) ==
  /\ job.pc = "trades"
  /\ job' = [job EXCEPT
               !.pc = "store-positions",
               !.fetched = [@ EXCEPT !["trades"] =
                              IF reply.kind = "rejects" THEN JArr(<<>>)
                              ELSE RowsOf(reply)]]
  /\ JobStays

\* positions job: a store function settles
StoreStep(outcome) ==
  /\ job.pc \in {"store-positions", "store-orders", "store-trades"}
  /\ kv' = StoreSnapshot(kv, now, KindStored(job.pc), Account.id,
                         SnapshotPayload(ExchangeOf(Account), KindStored(job.pc),
                                         job.fetched[KindStored(job.pc)]),
                         outcome)
  /\ job' =
       IF outcome # "stored"
       THEN Push(job, [accountId |-> Account.id, success |-> FALSE,
                       error |-> "store unreachable"], "store-failed")
       ELSE IF StepAfter(job.pc, ExchangeOf(Account)) = "push"
       THEN Push(job, [accountId |-> Account.id, success |-> TRUE], "stored")
       ELSE [job EXCEPT !.pc = StepAfter(job.pc, ExchangeOf(Account))]
  /\ UNCHANGED <<now, calls, log, writes, nStores, nDayTicks, gridVars,
                 equityVars, routeVars, close, apiVars>>

CollectNext ==
  \/ \E kind \in JobKinds : StartJob(kind)
  \/ \E kind \in JobKinds : FetchAccountsFail(kind)
  \/ JobRespond
  \/ SkipAccount
  \/ CallExchange
  \/ ExchangeHang
  \/ \E reply \in OkxBalanceReplies \cup AsterdexBalanceReplies : BalanceReply(reply)
  \/ StoreEquity
  \/ StoreEquityFail
  \/ \E reply \in FetchReplies : FetchReply(reply)
  \/ \E reply \in ListReplies : TradesReply(reply)
  \/ \E outcome \in StoreOutcomes : StoreStep(outcome)

CollectSpec == CollectInit /\ [][CollectNext]_vars

\* every step that can be taken is eventually taken: a call that settles
\* is answered, the loop goes on
CollectFairSpec == CollectSpec /\ WF_vars(CollectNext)

\* ------------------------------------------------------------------------
\* close-position: POST /api/close-position
\* ------------------------------------------------------------------------
BTCUSDT == JsString(<<"BTCUSDT">>)
BTCSwap == JsString(<<"BTC-USDT-SWAP">>)
ETHSwap == JsString(<<"ETH-USDT-SWAP">>)

\* the percentage member of the body: left out, or a number
Percentages ==
  {JsUndefined, JsNumber(0), JsNumber(5 * Scale), JsNumber(9500),
   JsNumber(10 * Scale), JsNumber(50 * Scale), JsNumber(100 * Scale),
   JsNumber(101 * Scale)}

\* the requests explored: with or without a session, each member of the
\* body present or left out
CloseRequests ==
  {[session |-> session,
    body |-> [accountId |-> accountId, percentage |-> percentage,
              symbol |-> symbol]] :
     session \in BOOLEAN, accountId \in {JsUndefined, JsString(<<"a1">>)},
     percentage \in Percentages, symbol \in {JsUndefined, BTCUSDT, BTCSwap}}

ErrorAnswer(status, error) == [status |-> status, error |-> error]

\* variant: the range of the percentage is not checked
Validate_NoRange(session, body) ==
  IF ~session THEN ErrorAnswer(401, "Unauthorized")
  ELSE IF Falsy(body.accountId) \/ Falsy(body.percentage)
  THEN ErrorAnswer(400, "Missing accountId or percentage")
  ELSE IF Falsy(body.symbol) THEN ErrorAnswer(400, "Missing symbol")
  ELSE NoResponse

\* the checks before the account is fetched: the answer they give, or
\* NoResponse when the request passes
Validate(session, body) ==
  IF ~session THEN ErrorAnswer(401, "Unauthorized")
  ELSE IF Falsy(body.accountId) \/ Falsy(body.percentage)
  THEN ErrorAnswer(400, "Missing accountId or percentage")
  ELSE IF Falsy(body.symbol) THEN ErrorAnswer(400, "Missing symbol")
  ELSE IF \/ body.percentage.milli < 10 * Scale
          \/ body.percentage.milli > 100 * Scale
  THEN ErrorAnswer(400, "Percentage must be between 10 and 100")
  ELSE NoResponse

\* the replies of fetchItems("trading_accounts", {filter: {id}}) explored
CloseAccountReplies ==
  {<<>>, <<Row("a1", "okx", TRUE, TRUE, TRUE)>>, <<Row("a1", "", TRUE, TRUE, TRUE)>>,
   <<Row("a1", "asterdex", TRUE, TRUE, TRUE)>>,
   <<Row("a1", "asterdex", TRUE, TRUE, FALSE)>>}

\* !apiKey || !apiSecret || !passphrase, whatever the exchange
MissingApiCredentials(account, env) ==
  \/ ~(account.api_key \/ env.OKX_API_KEY)
  \/ ~(account.api_secret \/ env.OKX_API_SECRET)
  \/ ~(account.api_passphrase \/ env.OKX_PASSPHRASE)

OkxPosition(instId, pos, posSide) ==
  [instId |-> instId, pos |-> JsString(pos), posSide |-> posSide,
   mgnMode |-> "cross"]

\* the replies of okx.getPositions("SWAP") explored
OkxPositionReplies ==
  {<<>>,
   <<OkxPosition(BTCSwap, <<"3">>, "net")>>,
   <<OkxPosition(BTCSwap, <<"-", "3">>, "net")>>,
   <<OkxPosition(BTCSwap, <<"1">>, "net")>>,
   <<OkxPosition(BTCSwap, <<"1", ".", "5">>, "")>>,
   <<OkxPosition(BTCSwap, <<"0">>, "net"), OkxPosition(ETHSwap, <<"5">>, "net")>>,
   <<OkxPosition(BTCSwap, <<"2">>, "long"), OkxPosition(ETHSwap, <<"5">>, "net"),
     OkxPosition(BTCSwap, <<"4">>, "short")>>}

\* the replies of asterdex.getPositions(symbol) explored (the array)
AsterdexPositionReplies ==
  {<<>>,
   <<[symbol |-> BTCUSDT, positionAmt |-> JsString(<<"2">>)]>>,
   <<[symbol |-> BTCUSDT, positionAmt |-> JsString(<<"-", "1", ".", "5">>)]>>,
   <<[symbol |-> BTCUSDT, positionAmt |-> JsString(<<"0", ".", "0", "0", "8">>)]>>,
   <<[symbol |-> BTCUSDT, positionAmt |-> JsString(<<"0", ".", "0", "0", "4">>)]>>,
   <<[symbol |-> BTCUSDT, positionAmt |-> JsString(<<"0", ".", "0", "0", "0">>)]>>,
   <<[s |-> BTCUSDT, pa |-> JsString(<<"0", ".", "5">>)],
     [s |-> BTCUSDT, pa |-> JsString(<<"-", "0", ".", "0", "1", "8">>)]>>}

PositionReplies(exchange) ==
  IF exchange = "asterdex" THEN AsterdexPositionReplies ELSE OkxPositionReplies

\* Number(position.positionAmt || position.pa || 0) / Number(position.pos)
PosSize(exchange, position) ==
  IF exchange = "asterdex"
  THEN ToNumber(Or(Or(Field(position, "positionAmt"), Field(position, "pa")),
                   JsNumber(0)))
  ELSE ToNumber(position.pos)

\* Math.abs(posSize) > 0
NonZero(posSize) == ~posSize.nan /\ MathAbs(posSize).milli > 0

\* activePositions / positions: the rows of the symbol with a non-zero amount
ActivePositions(exchange, data, symbol) ==
  IF exchange = "asterdex"
  THEN SelectSeq(data, LAMBDA pos :
                   /\ Or(Field(pos, "symbol"), Field(pos, "s")) = symbol
                   /\ NonZero(PosSize(exchange, pos)))
  ELSE SelectSeq(data, LAMBDA pos :
                   pos.instId = symbol /\ NonZero(PosSize(exchange, pos)))

\* the replies of okx.getInstrumentInfo(symbol) explored
InstrumentReplies ==
  {[code |-> "0", data |-> <<[lotSz |-> <<"1">>]>>],
   [code |-> "0", data |-> <<[lotSz |-> <<"0", ".", "5">>]>>],
   [code |-> "0", data |-> <<>>],
   [code |-> "51001", data |-> <<>>]}

\* lotSz: parseFloat of the instrument's lot size, 1 when the reply has none
LotSz(reply) ==
  IF reply.code = "0" /\ Len(reply.data) > 0
  THEN UnsignedLiteral(reply.data[1].lotSz)
  ELSE JsNumber(Scale)

\* variant: the opening direction
CloseSide_Opening(exchange, posSize) ==
  IF exchange = "asterdex"
  THEN (IF posSize.milli > 0 THEN "BUY" ELSE "SELL")
  ELSE (IF posSize.milli > 0 THEN "buy" ELSE "sell")

\* posSize > 0 ? "SELL" : "BUY" / posSize > 0 ? "sell" : "buy"
CloseSide(exchange, posSize) ==
  IF exchange = "asterdex"
  THEN (IF posSize.milli > 0 THEN "SELL" ELSE "BUY")
  ELSE (IF posSize.milli > 0 THEN "sell" ELSE "buy")

\* (absSize * percentage) / 100, counted in 1e-8: both factors are in
\* thousandths
RawCloseSize(absSize, percentage) == absSize.milli * percentage.milli

\* Math.floor(rawCloseSize / lotSz) * lotSz
OkxCloseSize(absSize, percentage, lotSz) ==
  JsNumber((RawCloseSize(absSize, percentage) \div (lotSz.milli * 100 * Scale))
             * lotSz.milli)

\* x.toFixed(2) of a non-negative x counted in 1e-8, not halfway between
\* two hundredths
ToFixed2(x) ==
  LET hundredths == (x + 500000) \div 1000000
  IN Digits(hundredths \div 100) \o <<".">> \o
       <<DigitChars[((hundredths \div 10) % 10) + 1],
         DigitChars[(hundredths % 10) + 1]>>

\* the digits of the thousandths without the zeros at the end
FractionDigits(milli) ==
  IF milli % 100 = 0 THEN <<DigitChars[(milli \div 100) + 1]>>
  ELSE IF milli % 10 = 0
  THEN <<DigitChars[(milli \div 100) + 1], DigitChars[((milli \div 10) % 10) + 1]>>
  ELSE Pad3(milli)

\* x.toString() of a non-negative number of thousandths
NumberToString(x) ==
  IF x.milli % Scale = 0 THEN Digits(x.milli \div Scale)
  ELSE Digits(x.milli \div Scale) \o <<".">> \o FractionDigits(x.milli % Scale)

\* orderData of the AsterDex path
AsterdexOrder(position, symbol, percentage) ==
  LET posSize == PosSize("asterdex", position)
  IN [symbol |-> symbol, side |-> CloseSide("asterdex", posSize),
      type |-> "MARKET",
      quantity |-> JsString(ToFixed2(RawCloseSize(MathAbs(posSize), percentage)))]

\* orderData of the OKX path; posSide "" is the order without the member
OkxOrder(position, percentage, lotSz) ==
  LET posSize == PosSize("okx", position)
  IN [instId |-> position.instId, tdMode |-> position.mgnMode,
      side |-> CloseSide("okx", posSize), ordType |-> "market",
      sz |-> JsString(NumberToString(OkxCloseSize(MathAbs(posSize), percentage,
                                                  lotSz))),
      posSide |-> IF position.posSide \notin {"", "net"} THEN position.posSide
                  ELSE ""]

\* closeSize < lotSz
BelowLot(position, percentage, lotSz) ==
  OkxCloseSize(MathAbs(PosSize("okx", position)), percentage, lotSz).milli
    < lotSz.milli

\* what the awaited placeOrder can do
AsterdexOrderReplies ==
  {[kind |-> "resolves", orderId |-> 77, msg |-> ""],
   [kind |-> "resolves", orderId |-> 0, msg |-> "Order would immediately trigger"],
   [kind |-> "rejects", orderId |-> 0, msg |-> "timeout"]}

OkxOrderReplies ==
  {[kind |-> "resolves", code |-> "0", msg |-> ""],
   [kind |-> "resolves", code |-> "51008", msg |-> "Insufficient balance"],
   [kind |-> "rejects", code |-> "", msg |-> "timeout"]}

OrderReplies(exchange) ==
  IF exchange = "asterdex" THEN AsterdexOrderReplies ELSE OkxOrderReplies

\* success of the entry pushed for a reply of placeOrder
OrderAccepted(exchange, reply) ==
  /\ reply.kind = "resolves"
  /\ IF exchange = "asterdex" THEN reply.orderId # 0 ELSE reply.code = "0"

CloseInit ==
  /\ now = Num(0)
  /\ kv = <<>>
  /\ calls = [c \in Callers |-> Idle]
  /\ log = [ka \in Kinds \X Accounts |-> <<>>]
  /\ writes = [ka \in Kinds \X Accounts |-> <<>>]
  /\ nStores = 0
  /\ nDayTicks = 0
  /\ hashes = <<>>
  /\ gridLog = <<>>
  /\ nGridOps = 0
  /\ clearCall = Idle
  /\ samples = <<>>
  /\ nRecords = 0
  /\ nEquityTicks = 0
  /\ normalized = NoCall
  /\ converted = NoCall
  /\ api = NoRequest
  /\ reader = Idle
  /\ chunks = NoRequest
  /\ job = NoJob
  /\ close \in {[pc |-> "received", session |-> r.session, body |-> r.body,
                 exchange |-> "", positions |-> <<>>, lotSz |-> JsNumber(0),
                 at |-> 0, results |-> <<>>, calls |-> <<>>,
                 response |-> NoResponse] : r \in CloseRequests}

CloseStays == UNCHANGED <<snapVars, gridVars, equityVars, routeVars, job, apiVars>>

\* return NextResponse.json(...)
Answer(c, response) == [c EXCEPT !.pc = "done", !.response = response]

\* the catch of the handler
Fatal(c) == Answer(c, ErrorAnswer(500, "error.message"))

\* the session and the body are checked
CloseValidate ==
  /\ close.pc = "received"
  /\ LET answer == Validate(close.session, close.body)
     IN close' = IF answer = NoResponse THEN [close EXCEPT !.pc = "account"]
                 ELSE Answer(close, answer)
  /\ CloseStays

\* fetchItems resolves: no account, credentials missing, or the first
\* exchange call is made
CloseFetchAccount(reply, env) ==
  /\ close.pc = "account"
  /\ close' =
       IF Len(reply) = 0 THEN Answer(close, ErrorAnswer(404, "Account not found"))
       ELSE IF MissingApiCredentials(reply[1], env)
       THEN Answer(close, ErrorAnswer(500, "Missing API credentials"))
       ELSE [close EXCEPT !.pc = "positions", !.exchange = ExchangeOf(reply[1]),
                          !.calls = Append(@, [api |-> "getPositions"])]
  /\ CloseStays

\* fetchItems rejects
CloseFetchAccountFail ==
  /\ close.pc = "account"
  /\ close' = Fatal(close)
  /\ CloseStays

\* getPositions resolves: nothing to close, or the loop starts (on the OKX
\* path after the instrument is read)
ClosePositionsReply(data) ==
  /\ close.pc = "positions"
  /\ LET active == ActivePositions(close.exchange, data, close.body.symbol)
     IN close' =
          IF Len(active) = 0
          THEN Answer(close, [status |-> 200, success |-> TRUE,
                              message |-> "No positions to close",
                              results |-> <<>>])
          ELSE IF close.exchange = "asterdex"
          THEN [close EXCEPT !.pc = "closing", !.positions = active, !.at = 1]
          ELSE [close EXCEPT !.pc = "instrument", !.positions = active,
                             !.calls = Append(@, [api |-> "getInstrumentInfo"])]
  /\ CloseStays

\* getPositions or getInstrumentInfo rejects
CloseReadFail ==
  /\ close.pc \in {"positions", "instrument"}
  /\ close' = Fatal(close)
  /\ CloseStays

\* getInstrumentInfo resolves
CloseInstrumentReply(reply) ==
  /\ close.pc = "instrument"
  /\ close' = [close EXCEPT !.pc = "closing", !.lotSz = LotSz(reply), !.at = 1]
  /\ CloseStays

\* results.push(entry), then the next position or the answer
PushResult(c, entry) ==
  LET results == Append(c.results, entry)
  IN IF c.at = Len(c.positions)
     THEN Answer([c EXCEPT !.results = results],
                 [status |-> 200, success |-> TRUE, message |-> "",
                  results |-> results])
     ELSE [c EXCEPT !.pc = "closing", !.results = results, !.at = @ + 1]

\* the body of the loop up to the await of placeOrder
ClosePlaceOrder ==
  /\ close.pc = "closing"
  /\ LET position == close.positions[close.at]
     IN close' =
          IF close.exchange = "asterdex"
          THEN [close EXCEPT
                  !.pc = "ordering",
                  !.calls = Append(@, [api |-> "placeOrder", at |-> close.at,
                                       order |-> AsterdexOrder(position,
                                                               close.body.symbol,
                                                               close.body.percentage)])]
          ELSE IF BelowLot(position, close.body.percentage, close.lotSz)
          THEN PushResult(close, [at |-> close.at, success |-> FALSE,
                                  error |-> "Close size is less than minimum lot size"])
          ELSE [close EXCEPT
                  !.pc = "ordering",
                  !.calls = Append(@, [api |-> "placeOrder", at |-> close.at,
                                       order |-> OkxOrder(position,
                                                          close.body.percentage,
                                                          close.lotSz)])]
  /\ CloseStays

\* placeOrder resolves or rejects: one entry for the position
CloseOrderReply(reply) ==
  /\ close.pc = "ordering"
  /\ close' = PushResult(close, [at |-> close.at,
                                 success |-> OrderAccepted(close.exchange, reply),
                                 error |-> reply.msg])
  /\ CloseStays

CloseNext ==
  \/ CloseValidate
  \/ \E reply \in CloseAccountReplies, env \in Envs : CloseFetchAccount(reply, env)
  \/ CloseFetchAccountFail
  \/ \E data \in PositionReplies(close.exchange) : ClosePositionsReply(data)
  \/ CloseReadFail
  \/ \E reply \in InstrumentReplies : CloseInstrumentReply(reply)
  \/ ClosePlaceOrder
  \/ \E reply \in OrderReplies(close.exchange) : CloseOrderReply(reply)

CloseSpec == CloseInit /\ [][CloseNext]_vars

\* ------------------------------------------------------------------------
\* Vocabulary of the properties
\* ------------------------------------------------------------------------
KA == Kinds \X Accounts

\* member `name` of a JSON object
JGet(j, name) == j.v[CHOOSE i \in 1..Len(j.v) : j.v[i][1] = name][2]

Envelope(timestamp, payload) ==
  JObj(<<<<"timestamp", JNum(timestamp)>>, <<"data", payload>>>>)

Epoch == Num(0)
EndOfTime == [s |-> 2000000000, ms |-> 0]

ThirtyDays == SecToMs(30 * DaySeconds)

Latest(ka) == GetLatest(kv, now, ka[1], ka[2])

FullHistory(ka) == GetHistory(kv, now, ka[1], ka[2], Epoch, EndOfTime)

SeqRange(q) == {q[i] : i \in 1..Len(q)}

\* a store call on ka has just returned in this step
Returned(ka) ==
  /\ Len(log'[ka]) = Len(log[ka]) + 1
  /\ log'[ka][Len(log'[ka])].end = "returned"

\* a store call on ka was just interrupted between its two writes
Interrupted(ka) ==
  /\ Len(log'[ka]) = Len(log[ka]) + 1
  /\ log'[ka][Len(log'[ka])].end = "threw"
  /\ log'[ka][Len(log'[ka])].stage = "latest"

LastCall(ka) == log[ka][Len(log[ka])]

\* the last thing that happened on ka is a call that returned, alone
Settled(ka) ==
  /\ log[ka] # <<>>
  /\ LastCall(ka).end = "returned"
  /\ ~LastCall(ka).overlapped
  /\ InFlight(ka[1], ka[2]) = {}

\* the timestamps under which a historical key of ka was written
WrittenTs(ka) == {w.timestamp : w \in SeqRange(writes[ka])}

\* the last write of the historical key of ka with that timestamp
LastWrite(ka, ts) ==
  writes[ka][CHOOSE i \in 1..Len(writes[ka]) :
               /\ writes[ka][i].timestamp = ts
               /\ \A j \in (i + 1)..Len(writes[ka]) : writes[ka][j].timestamp # ts]

\* ------------------------------------------------------------------------
\* C1  Round trip: when a store call returns, a getLatest issued right then
\*     for the same (kind, account) returns {timestamp, data} with data equal
\*     to the payload stored and timestamp the Date.now() of that call.
\* ------------------------------------------------------------------------
C1_RoundTrip ==
  [][\A ka \in KA :
       Returned(ka) =>
         GetLatest(kv', now', ka[1], ka[2]) =
           Envelope(log'[ka][Len(log'[ka])].timestamp,
                    log'[ka][Len(log'[ka])].payload)]_vars

C1_Witness ==
  \E ka \in KA :
    /\ Settled(ka)
    /\ LastCall(ka).payload = PayloadB
    /\ LastCall(ka).at = now
    /\ Latest(ka) = Envelope(LastCall(ka).timestamp, PayloadB)

\* ------------------------------------------------------------------------
\* C2  After non-overlapping store calls the last of which returned, the
\*     unexpired "latest" pointer holds the payload of that last call and
\*     its timestamp is >= the timestamp of every historical entry still
\*     stored; once the pointer has expired no historical entry is left.
\* ------------------------------------------------------------------------
C2_LatestIsLast ==
  \A ka \in KA :
    Settled(ka) =>
      IF Latest(ka) = JNull
      THEN FullHistory(ka) = <<>>
      ELSE /\ JGet(Latest(ka), "data") = LastCall(ka).payload
           /\ \A h \in SeqRange(FullHistory(ka)) :
                NumLeq(h.timestamp, JGet(Latest(ka), "timestamp").v)

C2_Witness ==
  \E ka \in KA :
    /\ Settled(ka)
    /\ Len(log[ka]) = 2
    /\ log[ka][1].payload # log[ka][2].payload
    /\ Len(FullHistory(ka)) = 2
    /\ JGet(Latest(ka), "data") = log[ka][2].payload

\* ------------------------------------------------------------------------
\* C3  getHistory(kind, acct, start, end) returns exactly the unexpired
\*     historical entries of that account with start <= t <= end (bounds
\*     inclusive), each with the payload last written under t, never the
\*     "latest" pointer, in strictly ascending timestamp order.
\* ------------------------------------------------------------------------
ExpectedHistory(ka, startTime, endTime) ==
  {[timestamp |-> ts, data |-> LastWrite(ka, ts).payload] :
     ts \in {u \in WrittenTs(ka) :
               /\ Live(kv, now, HistoryKey(ka[1], ka[2], u))
               /\ NumLeq(startTime, u)
               /\ NumLeq(u, endTime)}}

HistoryAsExpected(ka, startTime, endTime) ==
  LET res == GetHistory(kv, now, ka[1], ka[2], startTime, endTime)
  IN /\ SeqRange(res) = ExpectedHistory(ka, startTime, endTime)
     /\ \A i \in 1..Len(res) : res[i].timestamp # NaN
     /\ \A i \in 1..Len(res), j \in 1..Len(res) :
          i < j => NumLt(res[i].timestamp, res[j].timestamp)

C3_HistoryRange ==
  \A ka \in KA :
    /\ HistoryAsExpected(ka, Epoch, EndOfTime)
    /\ \A startTime \in WrittenTs(ka), endTime \in WrittenTs(ka) :
         HistoryAsExpected(ka, startTime, endTime)

C3_Witness ==
  \E ka \in KA :
    /\ Settled(ka)
    /\ Cardinality(WrittenTs(ka)) = 2
    /\ \E t1 \in WrittenTs(ka), t2 \in WrittenTs(ka) :
         /\ NumLt(t1, t2)
         /\ Len(GetHistory(kv, now, ka[1], ka[2], t1, t2)) = 2
         /\ GetHistory(kv, now, ka[1], ka[2], t1, t1) =
              <<[timestamp |-> t1, data |-> LastWrite(ka, t1).payload]>>
         /\ GetHistory(kv, now, ka[1], ka[2], t2, t2) =
              <<[timestamp |-> t2, data |-> LastWrite(ka, t2).payload]>>


\* ------------------------------------------------------------------------
\* C4  A positions or orders historical entry is returned by the range read
\*     exactly while less than 30 days have passed since it was written; a
\*     trade-history entry is returned however much time has passed.
\* ------------------------------------------------------------------------
InFullHistory(ka, ts) == \E h \in SeqRange(FullHistory(ka)) : h.timestamp = ts

C4_Expiry ==
  \A ka \in KA : \A ts \in WrittenTs(ka) :
    InFullHistory(ka, ts) <=>
      \/ ka[1] = "trades"
      \/ NumLt(now, NumAdd(LastWrite(ka, ts).at, ThirtyDays))

C4_Witness ==
  /\ \E a \in Accounts : \E ts \in WrittenTs(<<"positions", a>>) :
       /\ NumLeq(NumAdd(LastWrite(<<"positions", a>>, ts).at, ThirtyDays), now)
       /\ GetHistory(kv, now, "positions", a, Epoch, now) = <<>>
  /\ \E a \in Accounts : \E ts \in WrittenTs(<<"trades", a>>) :
       /\ NumLeq(NumAdd(LastWrite(<<"trades", a>>, ts).at, ThirtyDays), now)
       /\ Len(GetHistory(kv, now, "trades", a, Epoch, now)) = 1

\* ------------------------------------------------------------------------
\* C5  getLatest returns null exactly when no store call has returned for
\*     (kind, account), or the kind is positions/orders and 30 days have
\*     passed since the most recent store call that returned (every call
\*     that returns restarts the retention of the pointer).
\* ------------------------------------------------------------------------
ReturnedCalls(ka) == {i \in 1..Len(log[ka]) : log[ka][i].end = "returned"}

LastReturned(ka) ==
  log[ka][CHOOSE i \in ReturnedCalls(ka) : \A j \in ReturnedCalls(ka) : j <= i]

C5_LatestNull ==
  \A ka \in KA :
    (Latest(ka) = JNull) <=>
      \/ ReturnedCalls(ka) = {}
      \/ /\ ka[1] \in {"positions", "orders"}
         /\ NumLeq(NumAdd(LastReturned(ka).at, ThirtyDays), now)

C5_Witness ==
  \E ka \in KA :
    /\ ka[1] \in {"positions", "orders"}
    /\ ReturnedCalls(ka) = {1, 2}
    /\ NumLeq(NumAdd(log[ka][1].at, ThirtyDays), now)
    /\ Latest(ka) = Envelope(log[ka][2].timestamp, log[ka][2].payload)

\* ------------------------------------------------------------------------
\* C6  storeSnapshot never propagates a store failure to its caller: every
\*     store call ends by returning normally.
\* ------------------------------------------------------------------------
C6_NeverThrows ==
  \A ka \in KA : \A i \in 1..Len(log[ka]) : log[ka][i].end = "returned"

\* ------------------------------------------------------------------------
\* C7  When a store call is interrupted between its historical write and
\*     its "latest" write, the pointer still holds the snapshot of the last
\*     call that returned (null when there is none); the next store call
\*     that returns makes the pointer equal to the newest historical entry.
\* ------------------------------------------------------------------------
Stale(ka) ==
  /\ log[ka] # <<>>
  /\ LastCall(ka).end = "threw"
  /\ LastCall(ka).stage = "latest"

LatestIsNewest(st, t, ka) ==
  LET hist == GetHistory(st, t, ka[1], ka[2], Epoch, EndOfTime)
  IN /\ hist # <<>>
     /\ GetLatest(st, t, ka[1], ka[2]) =
          Envelope(hist[Len(hist)].timestamp, hist[Len(hist)].data)

C7_SelfHealing ==
  [][\A ka \in KA :
       /\ Interrupted(ka) =>
            GetLatest(kv', now', ka[1], ka[2]) =
              IF ReturnedCalls(ka) = {} THEN JNull
              ELSE Envelope(LastReturned(ka).timestamp, LastReturned(ka).payload)
       /\ (Stale(ka) /\ Returned(ka)) => LatestIsNewest(kv', now', ka)]_vars

C7_Witness ==
  \E ka \in KA :
    /\ Len(log[ka]) = 2
    /\ log[ka][1].end = "threw" /\ log[ka][1].stage = "latest"
    /\ log[ka][2].end = "returned"
    /\ log[ka][1].payload # log[ka][2].payload
    /\ NumLt(log[ka][1].timestamp, log[ka][2].timestamp)
    /\ LatestIsNewest(kv, now, ka)
    /\ Latest(ka) = Envelope(log[ka][2].timestamp, log[ka][2].payload)

\* ------------------------------------------------------------------------
\* C8  After N store calls for one (kind, account) that all returned, and
\*     before any expiry, the account has one "latest" pointer and
\*     (as claimed)  N historical entries;
\*     (as amended)  one historical entry per distinct millisecond
\*                   timestamp of those calls.
\* ------------------------------------------------------------------------
StoredKeys(ka) == RedisKeys(kv, now, KeyPrefix(ka[1], ka[2]))

PointerKeys(ka) == {k \in StoredKeys(ka) : EndsWith(k, <<":", "latest">>)}

HistoricalKeys(ka) == StoredKeys(ka) \ PointerKeys(ka)

AllReturned(ka) ==
  /\ log[ka] # <<>>
  /\ \A i \in 1..Len(log[ka]) : log[ka][i].end = "returned"
  /\ InFlight(ka[1], ka[2]) = {}
  /\ \A k \in DOMAIN kv : Live(kv, now, k)

C8_NEntries ==
  \A ka \in KA :
    AllReturned(ka) =>
      /\ Cardinality(PointerKeys(ka)) = 1
      /\ Cardinality(HistoricalKeys(ka)) = Len(log[ka])

C8_EntryPerTimestamp ==
  \A ka \in KA :
    AllReturned(ka) =>
      /\ Cardinality(PointerKeys(ka)) = 1
      /\ Cardinality(HistoricalKeys(ka)) =
           Cardinality({log[ka][i].timestamp : i \in 1..Len(log[ka])})

C8_Witness ==
  \E ka \in KA :
    /\ AllReturned(ka)
    /\ Len(log[ka]) = 2
    /\ log[ka][1].timestamp = log[ka][2].timestamp
    /\ Cardinality(HistoricalKeys(ka)) = 1
    /\ FullHistory(ka) =
         <<[timestamp |-> log[ka][2].timestamp, data |-> log[ka][2].payload]>>

C8_WitnessDistinct ==
  \E ka \in KA :
    /\ AllReturned(ka)
    /\ Len(log[ka]) = 2
    /\ log[ka][1].timestamp # log[ka][2].timestamp
    /\ Cardinality(HistoricalKeys(ka)) = 2


\* ------------------------------------------------------------------------
\* Vocabulary of the grid-level properties
\* ------------------------------------------------------------------------
\* the (account, symbol, side, exchange) a grid hash belongs to
Grids == Accounts \X Symbols \X Sides \X Exchanges

Levels(g) == GetGridLevels(hashes, g[1], g[2], g[3], g[4])

\* the operations of the history that addressed grid g (one exchange)
OpsOn(g) ==
  {n \in 1..Len(gridLog) :
     /\ gridLog[n].account = g[1]
     /\ gridLog[n].symbol = g[2]
     /\ gridLog[n].side = g[3]}

WriteOps == {"setLevel", "strategy"}

ClearOps == {"clearSide", "clearBuy", "clearSell"}

\* the writes that took effect on index i of grid g
WritesOn(g, i) ==
  {n \in OpsOn(g) :
     /\ gridLog[n].op \in WriteOps
     /\ gridLog[n].index = i
     /\ gridLog[n].end = "returned"}

\* the operations that took effect on index i of grid g: its writes, its
\* deletions and the clears of the grid
EffectsOn(g, i) ==
  {n \in OpsOn(g) :
     /\ gridLog[n].end = "returned"
     /\ (gridLog[n].index = i \/ gridLog[n].op \in ClearOps)}

GridIndices ==
  {i[4] : i \in SetLevelInputs \cup StrategyInputs \cup EditSetInputs \cup DeleteInputs}
    \cup {SeedLevels[n][4] : n \in 1..Len(SeedLevels)}

\* the indices currently set: the last operation that took effect on
\* them is a write
SetIndices(g) ==
  {i \in GridIndices :
     /\ EffectsOn(g, i) # {}
     /\ gridLog[CHOOSE n \in EffectsOn(g, i) :
                  \A m \in EffectsOn(g, i) : m <= n].op \in WriteOps}

LastWriteOn(g, i) ==
  gridLog[CHOOSE n \in WritesOn(g, i) : \A m \in WritesOn(g, i) : m <= n]

\* the indices set whose stored value parses
Parses(g, i) == JSONParse(LastWriteOn(g, i).value).ok

ParsingIndices(g) == {i \in SetIndices(g) : Parses(g, i)}

\* the elements of a set of integers in ascending order
RECURSIVE Ascending(_)
Ascending(S) ==
  IF S = {} THEN <<>>
  ELSE LET least == CHOOSE x \in S : \A y \in S : x <= y
       IN <<least>> \o Ascending(S \ {least})

\* ------------------------------------------------------------------------
\* C9  setLevel is an upsert, last write wins, no merge: on a grid written
\*     by setLevel calls only, getLevels holds for each index set exactly
\*     the level given by the last setLevel call on that index that
\*     returned, member for member.
\* ------------------------------------------------------------------------
OnlySetLevel(g) == \A n \in OpsOn(g) : gridLog[n].op = "setLevel"

C9_LastWriteWins ==
  \A g \in Grids :
    OnlySetLevel(g) =>
      Levels(g) = [k \in 1..Cardinality(SetIndices(g)) |->
                     LastWriteOn(g, Ascending(SetIndices(g))[k]).level]

C9_Witness ==
  \E g \in Grids : \E i \in GridIndices :
    /\ OnlySetLevel(g)
    /\ Cardinality(SetIndices(g)) = 2
    /\ Cardinality(WritesOn(g, i)) = 2
    /\ \E n \in WritesOn(g, i) : gridLog[n].level = LevelA
    /\ LastWriteOn(g, i).level = LevelB
    /\ Levels(g) = <<LevelB, LevelB>>

\* ------------------------------------------------------------------------
\* C10 When the store answers, getLevels returns one element for every
\*     index currently set whose stored value parses, namely the parsed
\*     value, in strictly ascending order of the index; values that do not
\*     parse are left out and nothing is thrown; a grid never written
\*     yields [].
\* ------------------------------------------------------------------------
C10_GetLevels ==
  \A g \in Grids :
    /\ Levels(g) = [k \in 1..Cardinality(ParsingIndices(g)) |->
                      JSONParse(LastWriteOn(g, Ascending(ParsingIndices(g))[k]).value).val]
    /\ (OpsOn(g) = {} => Levels(g) = <<>>)

C10_Witness ==
  \E g \in Grids, h \in Grids :
    /\ SetIndices(g) = {1, 2, 10}
    /\ ParsingIndices(g) = {2, 10}
    /\ Levels(g) = <<LevelA, LevelB>>
    /\ OpsOn(h) = {}
    /\ Levels(h) = <<>>

\* ------------------------------------------------------------------------
\* C11 deleteLevel removes exactly its index: on the step a deleteGridLevel
\*     call returns, the field of that index is gone and getLevels of that
\*     side is what it was without the level of that index; every other
\*     field of the side and every other grid (the other side included) is
\*     as before; when the index was not set the store is unchanged.
\* ------------------------------------------------------------------------
LevelsIn(st, g) == GetGridLevels(st, g[1], g[2], g[3], g[4])

HashIn(st, g) == HGetAll(st, GridKey(g[1], g[2], g[3], g[4]))

\* the operation that ends in this step
Ended == gridLog'[Len(gridLog')]

Ends(op) ==
  /\ Len(gridLog') = Len(gridLog) + 1
  /\ Ended.op = op
  /\ Ended.end = "returned"

Targets(g) ==
  /\ g[1] = Ended.account
  /\ g[2] = Ended.symbol
  /\ g[3] = Ended.side

RemoveAt(q, k) == SubSeq(q, 1, k - 1) \o SubSeq(q, k + 1, Len(q))

Rank(S, i) == Cardinality({j \in S : j <= i})

C11_DeleteExactlyOne ==
  [][Ends("deleteLevel") =>
       \A g \in Grids :
         IF Targets(g)
         THEN /\ ~HasField(HashIn(hashes', g), LevelField(Ended.index))
              /\ HashIn(hashes', g) =
                   SelectSeq(HashIn(hashes, g),
                             LAMBDA e : e.field # LevelField(Ended.index))
              /\ LevelsIn(hashes', g) =
                   IF Ended.index \in ParsingIndices(g)
                   THEN RemoveAt(Levels(g), Rank(ParsingIndices(g), Ended.index))
                   ELSE Levels(g)
              /\ (Ended.index \notin SetIndices(g) => hashes' = hashes)
         ELSE /\ HashIn(hashes', g) = HashIn(hashes, g)
              /\ LevelsIn(hashes', g) = Levels(g)]_vars

C11_Witness ==
  /\ \E n \in 1..Len(gridLog) :
       /\ gridLog[n].op = "deleteLevel" /\ gridLog[n].end = "returned"
       /\ gridLog[n].account = "a1" /\ gridLog[n].side = "buy"
       /\ gridLog[n].index = 2
  /\ \E n \in 1..Len(gridLog) :
       /\ gridLog[n].op = "deleteLevel" /\ gridLog[n].end = "returned"
       /\ gridLog[n].account = "a1" /\ gridLog[n].side = "buy"
       /\ gridLog[n].index = 3
  /\ Len(gridLog) = Len(SeedLevels) + 2
  /\ Levels(<<"a1", "BTCUSDT", "buy", "asterdex">>) = <<LevelB>>
  /\ Levels(<<"a1", "BTCUSDT", "sell", "asterdex">>) = <<LevelB>>
  /\ Levels(<<"a2", "BTCUSDT", "buy", "asterdex">>) = <<LevelB>>

\* ------------------------------------------------------------------------
\* C12 clearAll with a side empties that side and changes no other grid;
\*     clearAll without a side changes no grid of another account or
\*     symbol, and when it returns both sides are empty, provided no level
\*     was written to the buy side between its two deletions.
\* ------------------------------------------------------------------------
\* the grid of the other side
OtherSide(g) == <<g[1], g[2], IF g[3] = "buy" THEN "sell" ELSE "buy", g[4]>>

\* the first deletion of the clearAll that is in flight
ClearBuyAt(g) ==
  CHOOSE n \in OpsOn(g) :
    /\ gridLog[n].op = "clearBuy" /\ gridLog[n].end = "returned"
    /\ \A m \in OpsOn(g) :
         (gridLog[m].op = "clearBuy" /\ gridLog[m].end = "returned") => m <= n

\* a level was written to g after that deletion
WrittenSinceClearBuy(g) ==
  \E m \in OpsOn(g) :
    /\ m > ClearBuyAt(g)
    /\ gridLog[m].op \in WriteOps
    /\ gridLog[m].end = "returned"

\* in this step grid g is emptied and every other grid is left as it was
EmptiesOnly(g) ==
  /\ HashIn(hashes', g) = <<>>
  /\ LevelsIn(hashes', g) = <<>>
  /\ \A h \in Grids \ {g} :
       /\ HashIn(hashes', h) = HashIn(hashes, h)
       /\ LevelsIn(hashes', h) = Levels(h)

C12_WitnessOverlap ==
  /\ gridLog[Len(gridLog)].op = "clearSell"
  /\ gridLog[Len(gridLog)].end = "returned"
  /\ clearCall = Idle
  /\ Levels(<<"a1", "BTCUSDT", "buy", "asterdex">>) = <<LevelB>>

\* ------------------------------------------------------------------------
\* C13 The grid keys are partitioned by side: the last token of every grid
\*     key stored is BUY or SELL, and every level getLevels returns for a
\*     side was given to a setLevel call on that same side of the same
\*     (account, symbol).
\* ------------------------------------------------------------------------
\* the levels given to the setLevel calls on grid g that returned
LevelsSetOn(g) ==
  {gridLog[n].level :
     n \in {m \in OpsOn(g) : gridLog[m].op = "setLevel" /\ gridLog[m].end = "returned"}}

C13_SidePartition ==
  /\ \A k \in DOMAIN hashes : k[Len(k)] \in {"BUY", "SELL"}
  /\ \A g \in Grids : \A j \in 1..Len(Levels(g)) : Levels(g)[j] \in LevelsSetOn(g)

C13_Witness ==
  \E g \in Grids :
    /\ g[3] = "buy"
    /\ Levels(g) = <<LevelB>>
    /\ Levels(OtherSide(g)) = <<LevelA>>
    /\ LevelA \notin LevelsSetOn(g)
    /\ LevelB \notin LevelsSetOn(OtherSide(g))

\* ------------------------------------------------------------------------
\* C14 The batch read equals the single reads: for every store state,
\*     account, exchange, list of symbols and failure of reads, the map of
\*     batchGetGridLevelsBothSides has exactly the requested symbols as
\*     keys and maps each to what getGridLevelsBothSides returns for it.
\* ------------------------------------------------------------------------
BatchAgrees(accountId, symbols, exchange, outcome, failing) ==
  LET batch == BatchGetGridLevelsBothSides(hashes, accountId, symbols, exchange,
                                           outcome, failing)
  IN /\ DOMAIN batch = {symbols[i] : i \in 1..Len(symbols)}
     /\ \A symbol \in DOMAIN batch :
          batch[symbol] =
            GetGridLevelsBothSides(hashes, accountId, symbol, exchange, failing)

C14_BatchEqualsSingle ==
  \A accountId \in Accounts, symbols \in SymbolLists, exchange \in Exchanges :
    \A outcome \in ExecOutcomes, failing \in FailingReads(accountId, exchange) :
      BatchAgrees(accountId, symbols, exchange, outcome, failing)

\* the same, for the calls whose pipeline.exec() resolves
BatchAgreesWhenExecResolves ==
  \A accountId \in Accounts, symbols \in SymbolLists, exchange \in Exchanges :
    \A failing \in FailingReads(accountId, exchange) :
      BatchAgrees(accountId, symbols, exchange, "results", failing)

\* ------------------------------------------------------------------------
\* Vocabulary of the equity properties
\* ------------------------------------------------------------------------
SampleIds == 1..Len(samples)

At(i) == Ms(samples[i].timestamp)

\* the samples of the account whose timestamp lies in [now-25h, now-23h]
InWindow(accountId) ==
  {i \in SampleIds :
     /\ samples[i].account = accountId
     /\ Ms(now) - 25 * HourMs <= At(i)
     /\ At(i) <= Ms(now) - 23 * HourMs}

Distance(i) == Abs(At(i) - (Ms(now) - 24 * HourMs))

ClosestIn(accountId) ==
  {i \in InWindow(accountId) : \A j \in InWindow(accountId) : Distance(i) <= Distance(j)}

\* ------------------------------------------------------------------------
\* C15 getEquity24hAgo looks only at the account's samples with a timestamp
\*     in [now-25h, now-23h]: it returns null when there is none, and
\*     otherwise the value of a sample of the window whose timestamp is
\*     closest to now-24h.
\* ------------------------------------------------------------------------
C15_ClosestInWindow ==
  \A accountId \in Accounts :
    \A keys \in KeysReplies(kv, now, accountId) :
      LET result == GetEquity24hAgo(kv, now, accountId, keys)
      IN IF InWindow(accountId) = {} THEN result = Null
         ELSE \E i \in ClosestIn(accountId) : result = Num(samples[i].equity)

\* samples at now-25h, now-24.5h and now-23h: the read gives the now-24.5h one
C15_Witness ==
  \E i \in SampleIds, j \in SampleIds, k \in SampleIds :
    /\ samples[i].account = "a1" /\ samples[j].account = "a1"
    /\ samples[k].account = "a1"
    /\ At(i) = Ms(now) - 25 * HourMs
    /\ At(j) = Ms(now) - 24 * HourMs - 30 * 60 * 1000
    /\ At(k) = Ms(now) - 23 * HourMs
    /\ samples[j].equity # samples[i].equity
    /\ samples[j].equity # samples[k].equity
    /\ \A keys \in KeysReplies(kv, now, "a1") :
         GetEquity24hAgo(kv, now, "a1", keys) = Num(samples[j].equity)

\* ------------------------------------------------------------------------
\* C16 The tie-break is deterministic: for the same stored samples
\*     getEquity24hAgo returns the same value whatever the order in which
\*     the store enumerates the keys.
\* ------------------------------------------------------------------------
C16_OrderIndependent ==
  \A accountId \in Accounts :
    \A keys \in KeysReplies(kv, now, accountId),
       other \in KeysReplies(kv, now, accountId) :
      GetEquity24hAgo(kv, now, accountId, keys) =
        GetEquity24hAgo(kv, now, accountId, other)

\* the same, for the states without two equidistant closest samples
C16_OrderIndependentWithoutTie ==
  \A accountId \in Accounts :
    (\A i \in ClosestIn(accountId), j \in ClosestIn(accountId) : At(i) = At(j))
      => \A keys \in KeysReplies(kv, now, accountId),
            other \in KeysReplies(kv, now, accountId) :
           GetEquity24hAgo(kv, now, accountId, keys) =
             GetEquity24hAgo(kv, now, accountId, other)

\* ------------------------------------------------------------------------
\* C17 Append-only. Original statement: every sample recorded stays
\*     readable under its key with its original value until 7 days after
\*     its write, whatever is recorded later.
\* ------------------------------------------------------------------------
WithinRetention(i) == Ms(now) < At(i) + 7 * 24 * HourMs

Readable(i) ==
  LET value == RedisGet(kv, now, EquityKey(samples[i].account, samples[i].timestamp))
  IN /\ ~value.nil
     /\ ParseFloat(value.val) = Num(samples[i].equity)

\* a later sample of the same account in the same millisecond
Replaced(i) ==
  \E j \in SampleIds :
    /\ j > i
    /\ samples[j].account = samples[i].account
    /\ At(j) = At(i)

C17_AppendOnly == \A i \in SampleIds : WithinRetention(i) => Readable(i)

\* C17 amended: a sample stays readable with the value last recorded for
\*     its account and millisecond until 7 days after its write; samples of
\*     other accounts or other milliseconds never change or remove it.
C17_AppendOnlyPerTimestamp ==
  \A i \in SampleIds : (WithinRetention(i) /\ ~Replaced(i)) => Readable(i)

\* an earlier sample, more than 6 days old, is still readable after a later
\* one of the same account was recorded
C17_Witness ==
  \E i \in SampleIds, j \in SampleIds :
    /\ i < j
    /\ samples[i].account = samples[j].account
    /\ At(i) # At(j)
    /\ samples[i].equity # samples[j].equity
    /\ Ms(now) - At(i) > 6 * 24 * HourMs
    /\ WithinRetention(i)
    /\ Readable(i)

\* ------------------------------------------------------------------------
\* Vocabulary of the normalizer properties
\* ------------------------------------------------------------------------
\* the raw names of the position amount, per exchange
AmountNames(exchange) == IF exchange = "okx" THEN {"pos"} ELSE {"positionAmt", "pa"}

\* the raw names behind each optional canonical field, per exchange
OptionalFields == {"avgPrice", "unrealizedPnL", "unrealizedPnLRatio", "leverage", "notionalUsd"}

RawNames(exchange, field) ==
  IF exchange = "okx"
  THEN CASE field = "avgPrice" -> {"avgPx"}
         [] field = "unrealizedPnL" -> {"upl"}
         [] field = "unrealizedPnLRatio" -> {"uplRatio"}
         [] field = "leverage" -> {"lever"}
         [] field = "notionalUsd" -> {"notionalUsd"}
  ELSE CASE field = "avgPrice" -> {"entryPrice", "ep"}
         [] field = "unrealizedPnL" -> {"unRealizedProfit", "unrealizedProfit", "upl"}
         [] field = "unrealizedPnLRatio" -> {"unRealizedProfitRatio", "uplRatio"}
         [] field = "leverage" -> {"leverage", "lever"}
         [] field = "notionalUsd" -> {"notional", "notionalUsd"}

Lacks(raw, names) == names \cap DOMAIN raw = {}

\* the amount of a raw position that carries it under exactly one name
HasAmount(exchange, raw) == Cardinality(AmountNames(exchange) \cap DOMAIN raw) = 1

AmountOf(exchange, raw) ==
  ToNumber(raw[CHOOSE name \in AmountNames(exchange) \cap DOMAIN raw : TRUE])

\* ------------------------------------------------------------------------
\* C18 On both exchange paths the side of a normalized position follows
\*     from the sign of the raw amount alone: LONG for a positive amount,
\*     SHORT for a negative or zero one, and contracts is the absolute
\*     value of the amount.
\* ------------------------------------------------------------------------
C18_SideFromSign ==
  (normalized.called /\ HasAmount(normalized.exchange, normalized.raw)) =>
    LET amount == AmountOf(normalized.exchange, normalized.raw)
    IN /\ ~amount.nan
       /\ amount.milli > 0 => normalized.canonical.side = "LONG"
       /\ amount.milli <= 0 => normalized.canonical.side = "SHORT"
       /\ normalized.canonical.contracts = JsNumber(Abs(amount.milli))

\* an OKX position with a negative amount is SHORT, with |amount| contracts
C18_Witness ==
  /\ normalized.called
  /\ normalized.exchange = "okx"
  /\ AmountOf("okx", normalized.raw).milli < 0
  /\ normalized.canonical.side = "SHORT"
  /\ normalized.canonical.contracts = JsNumber(500)

\* ------------------------------------------------------------------------
\* C19 Missing optional fields default to 0: when a raw position of either
\*     exchange has none of the raw names of an optional numeric field,
\*     the canonical field is 0.
\* ------------------------------------------------------------------------
DefaultsToZero(field) ==
  Lacks(normalized.raw, RawNames(normalized.exchange, field))
    => normalized.canonical[field] = JsNumber(0)

C19_MissingDefaultsToZero ==
  normalized.called => \A field \in OptionalFields : DefaultsToZero(field)

\* the same, for the AsterDex path and the fields other than leverage
C19_AsterdexDefaultsButLeverage ==
  (normalized.called /\ normalized.exchange = "asterdex")
    => \A field \in OptionalFields \ {"leverage"} : DefaultsToZero(field)

\* ------------------------------------------------------------------------
\* C20 Symbol conversion is idempotent: converting the result of a
\*     conversion again, to the same format, gives that result; for the
\*     bare symbols converted to the hyphenated format, for the hyphenated
\*     ones converted to the bare format, and for every other symbol.
\* ------------------------------------------------------------------------
C20_Idempotent == converted.called => converted.twice = converted.once

\* a bare symbol that the conversion changes, and only once
C20_Witness ==
  /\ converted.called
  /\ converted.target = "okx"
  /\ ~Includes(converted.symbol, Hyphen)
  /\ converted.once # converted.symbol
  /\ converted.once = <<"B", "T", "C", "-", "U", "S", "D", "T", "-", "S", "W", "A", "P">>
  /\ converted.twice = converted.once

\* ------------------------------------------------------------------------
\* C21 Symbol conversion is reversible. Original statement: every symbol
\*     without a hyphen that ends in USDT, converted to the hyphenated
\*     format and back, is the original symbol, and so is every symbol
\*     BASE-USDT-SWAP converted to the bare format and back.
\* ------------------------------------------------------------------------
BareUSDT(symbol) == ~Includes(symbol, Hyphen) /\ EndsWith(symbol, USDT)

HyphenatedUSDT(symbol) == EndsWith(symbol, DashUSDTDashSWAP)

BaseOf(symbol) == SubSeq(symbol, 1, Len(symbol) - Len(DashUSDTDashSWAP))

\* USDT occurs in the symbol only as its last four characters
QuoteOnlyAtEnd(symbol) ==
  IndexFrom(symbol, USDT, 1) = Len(symbol) - Len(USDT) + 1

C21_Reversible ==
  converted.called =>
    /\ (converted.target = "okx" /\ BareUSDT(converted.symbol))
         => converted.back = converted.symbol
    /\ (converted.target = "asterdex" /\ HyphenatedUSDT(converted.symbol))
         => converted.back = converted.symbol

\* C21 amended: the round trip gives the original symbol for the bare
\*     symbols in which USDT occurs only at the end, and for the symbols
\*     BASE-USDT-SWAP whose BASE has no hyphen and for which BASE followed
\*     by USDT has USDT only at the end.
C21_ReversibleCommonCase ==
  converted.called =>
    /\ (/\ converted.target = "okx"
        /\ BareUSDT(converted.symbol)
        /\ QuoteOnlyAtEnd(converted.symbol))
         => converted.back = converted.symbol
    /\ (/\ converted.target = "asterdex"
        /\ HyphenatedUSDT(converted.symbol)
        /\ ~Includes(BaseOf(converted.symbol), Hyphen)
        /\ QuoteOnlyAtEnd(BaseOf(converted.symbol) \o USDT))
         => converted.back = converted.symbol

\* a hyphenated symbol that the conversion changes and the way back restores
C21_Witness ==
  /\ converted.called
  /\ converted.target = "asterdex"
  /\ HyphenatedUSDT(converted.symbol)
  /\ converted.once = <<"E", "T", "H", "U", "S", "D", "T">>
  /\ converted.back = converted.symbol

\* ------------------------------------------------------------------------
\* Vocabulary of the collection-run properties
\* ------------------------------------------------------------------------
Slots == 1..Len(job.registry)

\* the run answered with its aggregate result
Answered == job.pc = "done" /\ job.response.status = 200

\* the run went through the registry read
RegistryRead == job.pc # "idle" /\ job.i > 0

EntriesFor(id) == {n \in 1..Len(job.results) : job.results[n].accountId = id}

MarkedSuccess(entry) ==
  IF "status" \in DOMAIN entry THEN entry.status = "success" ELSE entry.success

\* an equity sample of the account is in the store
EquityWritten(id) ==
  \E n \in 1..Len(samples) :
    /\ samples[n].account = id
    /\ Truthy(RedisGet(kv, now, EquityKey(id, samples[n].timestamp)))

\* the latest positions and orders snapshots of the account are in the store
SnapshotsWritten(id) ==
  /\ GetLatest(kv, now, "positions", id) # JNull
  /\ GetLatest(kv, now, "orders", id) # JNull

ExchangeCallsFor(id) == {n \in 1..Len(job.calls) : job.calls[n].account = id}

\* ------------------------------------------------------------------------
\* C22 Failure isolation: a run that read the registry and ends, ends with
\*     the aggregate answer, every account of the registry was processed
\*     whatever failed before it, and every account whose exchange calls
\*     and store writes went through has an entry marked success and its
\*     equity (equity job) or snapshots (positions job) in the store.
\* ------------------------------------------------------------------------
C22_FailureIsolation ==
  (job.pc = "done" /\ RegistryRead) =>
    /\ Answered
    /\ \A k \in Slots : job.outcome[k] # "none"
    /\ \A k \in Slots :
         job.outcome[k] = "stored" =>
           /\ \E n \in EntriesFor(job.registry[k].id) : MarkedSuccess(job.results[n])
           /\ IF job.kind = "equity" THEN EquityWritten(job.registry[k].id)
              ELSE SnapshotsWritten(job.registry[k].id)

\* three accounts, the exchange call of the second fails: the first and the
\* third are marked success with their equity written
C22_Witness ==
  /\ Answered
  /\ job.kind = "equity"
  /\ Len(job.registry) = 3
  /\ job.outcome = <<"stored", "exchange-failed", "stored">>
  /\ Len(job.response.results) = 3
  /\ job.response.results[1].status = "success"
  /\ job.response.results[3].status = "success"
  /\ EquityWritten("a1") /\ EquityWritten("a3") /\ ~EquityWritten("a2")

\* ------------------------------------------------------------------------
\* C23 One outcome per account: the result list of a run that answers has
\*     exactly one entry per account of the registry, in order, and an
\*     account with missing credentials is in it as skipped with a reason
\*     and had no exchange call.
\* ------------------------------------------------------------------------
EnumeratesAccounts ==
  /\ Len(job.response.results) = Len(job.registry)
  /\ \A k \in Slots :
       /\ job.response.results[k].accountId = job.registry[k].id
       /\ MissingCredentials(job.registry[k], job.env) =>
            /\ "status" \in DOMAIN job.response.results[k]
            /\ job.response.results[k].status = "skipped"
            /\ "reason" \in DOMAIN job.response.results[k]
            /\ ExchangeCallsFor(job.registry[k].id) = {}

C23_OneEntryPerAccount == Answered => EnumeratesAccounts

\* the same, for the equity snapshot job
C23_EquityJobEnumerates == (Answered /\ job.kind = "equity") => EnumeratesAccounts

\* ------------------------------------------------------------------------
\* C24 An account of the equity job whose exchange call fails is in the
\*     results with status "error" and the error message, and has no
\*     equity sample written.
\* ------------------------------------------------------------------------
C24_ExchangeFailureIsError ==
  (Answered /\ job.kind = "equity") =>
    \A k \in Slots :
      job.outcome[k] = "exchange-failed" =>
        /\ \E n \in EntriesFor(job.registry[k].id) :
             /\ job.results[n].status = "error"
             /\ "error" \in DOMAIN job.results[n]
        /\ ~EquityWritten(job.registry[k].id)

\* what the job does report: status "failed" with a fixed reason, no sample
C24_ExchangeFailureIsFailed ==
  (Answered /\ job.kind = "equity") =>
    \A k \in Slots :
      job.outcome[k] = "exchange-failed" =>
        /\ \A n \in EntriesFor(job.registry[k].id) :
             /\ job.results[n].status = "failed"
             /\ job.results[n].reason = "Failed to get balance"
        /\ ~EquityWritten(job.registry[k].id)

\* ------------------------------------------------------------------------
\* C25 A hung exchange call does not stall the siblings: once the exchange
\*     call of one account hangs, every other account of the registry is
\*     eventually processed.
\* ------------------------------------------------------------------------
C25_HungCallDoesNotStall ==
  (job.pc = "hung") ~> (\A k \in Slots : k # job.i => job.outcome[k] # "none")

\* every run ends, with an answer or on a call that hangs
C25_RunEndsOrHangs == <>(job.pc \in {"done", "hung"})

\* ------------------------------------------------------------------------
\* Vocabulary of the read-failure properties
\* ------------------------------------------------------------------------
\* text that is not JSON
NotJSON == <<"{">>

\* the store with the value of one key replaced by text that is not JSON
Damaged(st, key) == [st EXCEPT ![key].val = NotJSON]

\* the store as it is, and with one live value damaged
StoresRead == {kv} \cup {Damaged(kv, k) : k \in {h \in DOMAIN kv : Live(kv, now, h)}}

SnapshotReadKinds == {"positions", "orders"}

\* ------------------------------------------------------------------------
\* C26 A store read or parse failure is treated as no data: getLatest
\*     returns null and getHistory and getLevels return [] (or skip the
\*     entry) when a stored value is not valid JSON or the store read
\*     fails; none of them throws to its caller.
\* ------------------------------------------------------------------------
C26_ReadFailureIsNoData ==
  /\ \A st \in StoresRead, kind \in SnapshotReadKinds, acct \in Accounts :
       \A outcome \in ReadOutcomes :
         /\ ~GetLatestCall(st, now, kind, acct, outcome).threw
         /\ ~GetHistoryCall(st, now, kind, acct, Epoch, EndOfTime, outcome).threw
         /\ outcome = "rejects" =>
              GetLatestCall(st, now, kind, acct, outcome) = Resolves(JNull)
  /\ \A reply \in {[err |-> TRUE]} : GridLevelsOf(reply) = <<>>

\* the part of it the code has: a failed read of a grid hash gives []
C26_GridReadFailureIsEmpty ==
  \A g \in Grids :
    GridLevelsOf(ReplyFor(hashes, GridKey(g[1], g[2], g[3], g[4]),
                          {GridKey(g[1], g[2], g[3], g[4])})) = <<>>

\* ------------------------------------------------------------------------
\* The Read API without accountId (GET /api/v1/positions, /api/v1/orders)
\* ------------------------------------------------------------------------
\* searchParams.get("exchange"): "" is the parameter left out
ExchangeFilters == {"", "okx", "asterdex"}

\* accounts.filter((acc) => (acc.exchange || "okx") === exchangeFilter)
FilteredAccounts(accounts, exchangeFilter) ==
  IF exchangeFilter = "" THEN accounts
  ELSE SelectSeq(accounts, LAMBDA acc : ExchangeOf(acc) = exchangeFilter)

\* x?.member || null of a parsed snapshot
MemberOrNull(x, name) ==
  IF x = JNull THEN JNull
  ELSE IF JGet(x, name) = JNum(Num(0)) THEN JNull
  ELSE JGet(x, name)

\* the object one callback of the map resolves with
AccountEntry(account, kind, latest) ==
  [accountId |-> account.id, symbol |-> account.symbol,
   exchange |-> ExchangeOf(account), kind |-> kind,
   data |-> MemberOrNull(latest, "data"),
   timestamp |-> MemberOrNull(latest, "timestamp")]

\* the reads of the callbacks, the read of the accounts in `failing`
\* rejecting
LatestReads(st, t, kind, accounts, failing) ==
  [i \in 1..Len(accounts) |->
     GetLatestCall(st, t, kind, accounts[i].id,
                   IF accounts[i].id \in failing THEN "rejects" ELSE "resolves")]

\* GET without accountId: Promise.all over the accounts, inside the try of
\* the handler
GetAll(st, t, kind, accounts, exchangeFilter, failing) ==
  LET filtered == FilteredAccounts(accounts, exchangeFilter)
      reads == LatestReads(st, t, kind, filtered, failing)
      results == [i \in 1..Len(filtered) |->
                    AccountEntry(filtered[i], kind, reads[i].value)]
  IN IF \E i \in 1..Len(filtered) : reads[i].threw
     THEN [status |-> 500, error |-> "Internal Server Error"]
     ELSE [status |-> 200, type |-> "all", count |-> Len(results),
           accounts |-> results]

RegistryIds == {job.registry[k].id : k \in Slots}

\* the answer lists the matching accounts, one entry each, in order
OneEntryPerMatching(res, exchangeFilter) ==
  LET filtered == FilteredAccounts(job.registry, exchangeFilter)
  IN /\ res.status = 200
     /\ res.type = "all"
     /\ res.count = Len(filtered)
     /\ Len(res.accounts) = Len(filtered)
     /\ \A i \in 1..Len(filtered) : res.accounts[i].accountId = filtered[i].id

\* ------------------------------------------------------------------------
\* C27 A multi-account read is not aborted by a partial failure: when the
\*     Read API is called without accountId and the latest-snapshot read of
\*     one account fails, the response still has type "all" with one entry
\*     per matching account, the failing account carrying null data, and
\*     is not an HTTP 500.
\* ------------------------------------------------------------------------
C27_PartialFailureKeepsAnswer ==
  \A kind \in SnapshotReadKinds, exchangeFilter \in ExchangeFilters :
    \A id \in RegistryIds :
      LET res == GetAll(kv, now, kind, job.registry, exchangeFilter, {id})
      IN /\ res.status # 500
         /\ OneEntryPerMatching(res, exchangeFilter)
         /\ \A i \in 1..Len(res.accounts) :
              res.accounts[i].accountId = id => res.accounts[i].data = JNull

\* what the code has: when every read resolves the answer has type "all"
\* with one entry per matching account, an account without a snapshot
\* carrying null data and the others the data of their latest snapshot
C27_AllWhenReadsResolve ==
  \A kind \in SnapshotReadKinds, exchangeFilter \in ExchangeFilters :
    LET res == GetAll(kv, now, kind, job.registry, exchangeFilter, {})
    IN /\ OneEntryPerMatching(res, exchangeFilter)
       /\ \A i \in 1..Len(res.accounts) :
            LET latest == GetLatest(kv, now, kind, res.accounts[i].accountId)
            IN res.accounts[i].data =
                 IF latest = JNull THEN JNull ELSE JGet(latest, "data")

\* ------------------------------------------------------------------------
\* Vocabulary of the close-position properties
\* ------------------------------------------------------------------------
\* a member of the body that was left out
Missing(v) == v.t = "undefined"

\* the percentage is there and below 10 or above 100
OutOfRange(percentage) ==
  /\ percentage.t = "number"
  /\ (percentage.milli < 10 * Scale \/ percentage.milli > 100 * Scale)

\* the request is one of those the checks are to refuse
Refusable ==
  \/ ~close.session
  \/ Missing(close.body.accountId)
  \/ Missing(close.body.symbol)
  \/ Missing(close.body.percentage)
  \/ OutOfRange(close.body.percentage)

\* the placeOrder calls made so far
OrdersPlaced == {n \in 1..Len(close.calls) : close.calls[n].api = "placeOrder"}

\* ------------------------------------------------------------------------
\* C28 close-position validation precedes any exchange call: a request
\*     without a session, with a missing accountId, symbol or percentage,
\*     or with a percentage below 10 or above 100 makes no exchange
\*     adapter call (positions read or order placement) at any point, and
\*     is answered with 401 (no session) or 400.
\* ------------------------------------------------------------------------
C28_ValidationFirst ==
  Refusable =>
    /\ close.calls = <<>>
    /\ close.pc \in {"received", "done"}
    /\ close.pc = "done" =>
         close.response.status = IF close.session THEN 400 ELSE 401

C28_Witness ==
  /\ close.pc = "done"
  /\ close.session
  /\ ~Missing(close.body.accountId)
  /\ ~Missing(close.body.symbol)
  /\ close.body.percentage = JsNumber(5 * Scale)
  /\ close.response.status = 400
  /\ close.calls = <<>>

\* the position an order was placed for, and its amount as the exchange
\* reported it
PositionOf(n) == close.positions[close.calls[n].at]

OrderedAmount(n) == PosSize(close.exchange, PositionOf(n))

SymbolOf(exchange, position) ==
  IF exchange = "asterdex" THEN Or(Field(position, "symbol"), Field(position, "s"))
  ELSE position.instId

\* the order is a market order of the given direction
MarketOrder(order, direction) ==
  IF close.exchange = "asterdex"
  THEN order.type = "MARKET" /\ order.side = (IF direction = "sell" THEN "SELL" ELSE "BUY")
  ELSE order.ordType = "market" /\ order.side = direction

\* ------------------------------------------------------------------------
\* C29 close-position always orders in the closing direction: for every
\*     position with a positive amount the order placed is a market sell,
\*     for every position with a negative amount it is a market buy, on
\*     both exchange paths; every order is for a position of the requested
\*     symbol with a non-zero amount, at most one per position.
\* ------------------------------------------------------------------------
C29_ClosingDirection ==
  /\ \A n \in OrdersPlaced :
       /\ SymbolOf(close.exchange, PositionOf(n)) = close.body.symbol
       /\ ~OrderedAmount(n).nan /\ OrderedAmount(n).milli # 0
       /\ OrderedAmount(n).milli > 0 => MarketOrder(close.calls[n].order, "sell")
       /\ OrderedAmount(n).milli < 0 => MarketOrder(close.calls[n].order, "buy")
  /\ \A n \in OrdersPlaced, m \in OrdersPlaced :
       close.calls[n].at = close.calls[m].at => n = m
  /\ close.positions = <<>> => OrdersPlaced = {}

\* an AsterDex request that placed a sell for the positive amount and a buy
\* for the negative one, both accepted
C29_Witness ==
  /\ close.pc = "done"
  /\ close.exchange = "asterdex"
  /\ \A i \in 1..Len(close.results) : close.results[i].success
  /\ \E n \in OrdersPlaced, m \in OrdersPlaced :
       /\ OrderedAmount(n).milli > 0 /\ close.calls[n].order.side = "SELL"
       /\ OrderedAmount(m).milli < 0 /\ close.calls[m].order.side = "BUY"

\* the same on the OKX path, where a single row carries the symbol in net
\* mode: the short was answered with a buy
C29_OkxShortBought ==
  \A n \in OrdersPlaced :
    (close.exchange = "okx" /\ OrderedAmount(n).milli < 0) =>
      close.calls[n].order = [instId |-> BTCSwap, tdMode |-> "cross",
                              side |-> "buy", ordType |-> "market",
                              sz |-> close.calls[n].order.sz, posSide |-> ""]

\* the size an order carries, read back from its text
OrderSize(n) ==
  ToNumber(IF close.exchange = "asterdex" THEN close.calls[n].order.quantity
           ELSE close.calls[n].order.sz)

\* the lot of the request: the instrument's lot size on the OKX path, the
\* step of a two-decimal quantity on the AsterDex path
LotOfRequest == IF close.exchange = "asterdex" THEN JsNumber(10) ELSE close.lotSz

\* the percentage of the absolute size of position i rounded down to a
\* whole multiple of the lot, in thousandths
RoundedDown(i) ==
  LET absSize == MathAbs(PosSize(close.exchange, close.positions[i]))
  IN ((absSize.milli * close.body.percentage.milli)
        \div (LotOfRequest.milli * 100 * Scale)) * LotOfRequest.milli

\* the positions the loop has dealt with
Dealt == {i \in 1..Len(close.positions) :
            \/ i < close.at
            \/ (i = close.at /\ close.pc \in {"ordering", "done"})}

SizeRule(n) ==
  /\ ~OrderSize(n).nan
  /\ OrderSize(n).milli = RoundedDown(close.calls[n].at)
  /\ OrderSize(n).milli >= LotOfRequest.milli
  /\ OrderSize(n).milli <= MathAbs(OrderedAmount(n)).milli

BelowLotRule(i) ==
  RoundedDown(i) < LotOfRequest.milli =>
    /\ \A n \in OrdersPlaced : close.calls[n].at # i
    /\ \A r \in 1..Len(close.results) :
         close.results[r].at = i => ~close.results[r].success
    /\ (close.pc = "done" /\ close.response.status = 200) =>
         \E r \in 1..Len(close.results) : close.results[r].at = i

\* ------------------------------------------------------------------------
\* C30 close-position respects the minimum lot size: the size of every
\*     order it places is the percentage of the absolute position size
\*     rounded down to a whole multiple of the instrument's lot size, is at
\*     least one lot and at most the absolute position size; when the
\*     rounded size is below one lot no order is placed and the result for
\*     that position is a failure.
\* ------------------------------------------------------------------------
C30_RespectsLotSize ==
  /\ \A n \in OrdersPlaced : SizeRule(n)
  /\ \A i \in Dealt : BelowLotRule(i)

\* what the code has: the rule holds of the OKX path
C30_OkxRespectsLotSize ==
  close.exchange = "okx" =>
    /\ \A n \in OrdersPlaced : SizeRule(n)
    /\ \A i \in Dealt : BelowLotRule(i)

\* the AsterDex path never places an order above the position rounded up
\* to the next hundredth
C30_AsterdexWithinOneStep ==
  close.exchange = "asterdex" =>
    \A n \in OrdersPlaced :
      /\ OrderSize(n).milli >= RoundedDown(close.calls[n].at)
      /\ OrderSize(n).milli <= RoundedDown(close.calls[n].at) + LotOfRequest.milli

\* ------------------------------------------------------------------------
\* The Read API: GET /api/v1/accounts, /api/v1/positions, /api/v1/orders,
\* one request per behaviour over a store the snapshot job has written
\* ------------------------------------------------------------------------
\* str.trim(), the white space being blanks
RECURSIVE TrimStart(_)
TrimStart(str) ==
  IF Len(str) > 0 /\ str[1] = " " THEN TrimStart(SubSeq(str, 2, Len(str))) ELSE str

RECURSIVE TrimEnd(_)
TrimEnd(str) ==
  IF Len(str) > 0 /\ str[Len(str)] = " "
  THEN TrimEnd(SubSeq(str, 1, Len(str) - 1)) ELSE str

Trim(str) == TrimEnd(TrimStart(str))

\* process.env.API_KEYS: not set, or a comma-separated list
EnvNotSet == [set |-> FALSE]
EnvSet(chars) == [set |-> TRUE, chars |-> chars]

ApiKeysEnvs ==
  {EnvNotSet, EnvSet(<<>>), EnvSet(<<"k", "1", ",", " ", "k", "2">>)}

\* the x-api-key header: <<>> is the request without it
ApiKeyHeaders == {<<>>, <<"k", "2">>, <<"k", "3">>, <<"k">>}

\* process.env.API_KEYS?.split(",").map(k => k.trim()) || []
ValidKeys(env) ==
  IF ~env.set THEN {}
  ELSE {Trim(Split(env.chars, ",")[i]) : i \in 1..Len(Split(env.chars, ","))}

\* variant: a key is accepted when a configured key starts with it
ValidateApiKey_Prefix(apiKey, env) ==
  IF Len(apiKey) = 0 THEN FALSE
  ELSE \E k \in ValidKeys(env) : StartsWith(k, apiKey)

\* validateApiKey(request)
ValidateApiKey(apiKey, env) ==
  IF Len(apiKey) = 0 THEN FALSE ELSE apiKey \in ValidKeys(env)

\* the query parameters explored; <<>> is a parameter left out
StartTimes == {<<>>, <<"0">>, <<"1">>}
EndTimes == {<<>>, <<"2">>}

ApiRequests ==
  {[route |-> "accounts", apiKey |-> apiKey, env |-> env, accountId |-> <<>>,
    startTime |-> <<>>, endTime |-> <<>>, exchange |-> exchange] :
     apiKey \in ApiKeyHeaders, env \in ApiKeysEnvs, exchange \in ExchangeFilters}
  \cup
  {[route |-> route, apiKey |-> apiKey, env |-> env, accountId |-> accountId,
    startTime |-> startTime, endTime |-> endTime, exchange |-> exchange] :
     route \in {"positions", "orders"}, apiKey \in ApiKeyHeaders,
     env \in {EnvSet(<<"k", "1", ",", " ", "k", "2">>)},
     accountId \in {<<>>, <<"a1">>}, startTime \in StartTimes,
     endTime \in EndTimes, exchange \in ExchangeFilters}

\* searchParams.get(name) ? parseInt(searchParams.get(name)) : undefined
TimeParam(chars) == IF Len(chars) = 0 THEN NaN ELSE ParseInt(chars)

\* startTime && endTime: undefined, NaN and 0 are falsy
TruthyTime(time) == time # NaN /\ Ms(time) # 0

BothBounds(request) ==
  TruthyTime(TimeParam(request.startTime)) /\ TruthyTime(TimeParam(request.endTime))

\* the account id of the request as the store functions take it
AccountIdOf(request) == request.accountId[1]

\* variant: a GET that removes the key it reads (GETDEL)
AfterGet_Del(st, key) == [k \in DOMAIN st \ {key} |-> st[k]]

\* the store after client.get(key): as before
AfterGet(st, key) == st

\* the store after client.keys(pattern): as before
AfterKeys(st, pattern) == st

\* the store after the reads of getLatestPositions / getLatestOrders for
\* the accounts of ids
RECURSIVE AfterLatestReads(_, _, _)
AfterLatestReads(st, kind, ids) ==
  IF ids = <<>> THEN st
  ELSE AfterLatestReads(AfterGet(st, LatestKey(kind, ids[1])), kind, Tail(ids))

\* the store after getPositionsHistory / getOrdersHistory: KEYS, then a GET
\* of each key in the range
RECURSIVE AfterGets(_, _)
AfterGets(st, keys) ==
  IF keys = {} THEN st
  ELSE LET key == CHOOSE k \in keys : TRUE
       IN AfterGets(AfterGet(st, key), keys \ {key})

AfterHistoryRead(st, t, kind, acct, startTime, endTime) ==
  AfterGets(AfterKeys(st, KeyPrefix(kind, acct)),
            {e.key : e \in {x \in ScannedKeys(st, t, kind, acct) :
                              InRange(x.timestamp, startTime, endTime)}})

Unauthorized == [status |-> 401, error |-> "Unauthorized",
                 message |-> "Valid API key required. Include 'x-api-key' header."]

InternalServerError == [status |-> 500, error |-> "Internal Server Error"]

\* the store calls the snapshot job makes before the request
SeedInputs ==
  {<<"positions", "a1", PayloadA>>, <<"positions", "a1", PayloadB>>,
   <<"orders", "a1", PayloadB>>, <<"positions", "a2", PayloadA>>}

\* the registries fetchItems answers the Read API with
ApiRegistries == {r \in Registries : Len(r) # 2}

ApiInit ==
  /\ now = Num(0)
  /\ kv = <<>>
  /\ calls = [c \in Callers |-> Idle]
  /\ log = [ka \in Kinds \X Accounts |-> <<>>]
  /\ writes = [ka \in Kinds \X Accounts |-> <<>>]
  /\ nStores = 0
  /\ nDayTicks = 0
  /\ hashes = <<>>
  /\ gridLog = <<>>
  /\ nGridOps = 0
  /\ clearCall = Idle
  /\ samples = <<>>
  /\ nRecords = 0
  /\ nEquityTicks = 0
  /\ normalized = NoCall
  /\ converted = NoCall
  /\ job = NoJob
  /\ close = NoRequest
  /\ api = NoRequest
  /\ reader = Idle
  /\ chunks = NoRequest

ApiStays ==
  UNCHANGED <<now, calls, log, writes, nDayTicks, gridVars, equityVars,
              routeVars, job, close, reader, chunks>>

\* a store call of the snapshot job, and a millisecond passing
SeedSnapshot(kind, acct, payload) ==
  /\ api.pc = "none"
  /\ nStores < MaxStores
  /\ nStores' = nStores + 1
  /\ kv' = StoreSnapshot(kv, now, kind, acct, payload, "stored")
  /\ now' = NumAdd(now, Num(1))
  /\ UNCHANGED <<calls, log, writes, nDayTicks, gridVars, equityVars,
                 routeVars, opsVars>>

\* a request arrives
ApiReceive(request) ==
  /\ api.pc = "none"
  /\ api' = [pc |-> "received", request |-> request, reads |-> <<>>,
             registry |-> <<>>, failed |-> FALSE, response |-> NoResponse]
  /\ UNCHANGED <<kv, nStores>>
  /\ ApiStays

ApiAnswer(a, reads, failed, response) ==
  [a EXCEPT !.pc = "done", !.reads = reads, !.failed = failed,
            !.response = response]

\* if (!validateApiKey(request)) return 401
ApiAuthorize ==
  /\ api.pc = "received"
  /\ api' = IF ValidateApiKey(api.request.apiKey, api.request.env)
            THEN [api EXCEPT !.pc = "authorized"]
            ELSE ApiAnswer(api, <<>>, FALSE, Unauthorized)
  /\ UNCHANGED <<kv, nStores>>
  /\ ApiStays

\* GET /api/v1/accounts
ApiAccounts(registry) ==
  /\ api.pc = "authorized"
  /\ api.request.route = "accounts"
  /\ LET filtered == FilteredAccounts(registry, api.request.exchange)
     IN api' = ApiAnswer([api EXCEPT !.registry = registry], <<"registry">>, FALSE,
                         [status |-> 200, count |-> Len(filtered),
                          accounts |-> [i \in 1..Len(filtered) |->
                                          [id |-> filtered[i].id,
                                           symbol |-> filtered[i].symbol,
                                           exchange |-> ExchangeOf(filtered[i])]]])
  /\ UNCHANGED <<kv, nStores>>
  /\ ApiStays

\* fetchItems rejects: the catch of the handler
ApiRegistryFail ==
  /\ api.pc = "authorized"
  /\ api.request.route = "accounts" \/ Len(api.request.accountId) = 0
  /\ api' = ApiAnswer(api, <<"registry">>, TRUE, InternalServerError)
  /\ UNCHANGED <<kv, nStores>>
  /\ ApiStays

\* accountId with startTime && endTime: the historical shape
ApiHistory(outcome) ==
  /\ api.pc = "authorized"
  /\ api.request.route # "accounts"
  /\ Len(api.request.accountId) > 0
  /\ BothBounds(api.request)
  /\ LET startTime == TimeParam(api.request.startTime)
         endTime == TimeParam(api.request.endTime)
         history == GetHistoryCall(kv, now, api.request.route,
                                   AccountIdOf(api.request), startTime, endTime,
                                   outcome)
     IN /\ api' = ApiAnswer(api, <<"history">>, history.threw,
                            IF history.threw THEN InternalServerError
                            ELSE [status |-> 200,
                                  accountId |-> AccountIdOf(api.request),
                                  type |-> "historical",
                                  count |-> Len(history.value),
                                  data |-> history.value])
        /\ kv' = AfterHistoryRead(kv, now, api.request.route,
                                  AccountIdOf(api.request), startTime, endTime)
  /\ UNCHANGED nStores
  /\ ApiStays

\* accountId otherwise: the latest shape
ApiLatest(outcome) ==
  /\ api.pc = "authorized"
  /\ api.request.route # "accounts"
  /\ Len(api.request.accountId) > 0
  /\ ~BothBounds(api.request)
  /\ LET latest == GetLatestCall(kv, now, api.request.route,
                                 AccountIdOf(api.request), outcome)
     IN api' = ApiAnswer(api, <<"latest">>, latest.threw,
                         IF latest.threw THEN InternalServerError
                         ELSE [status |-> 200,
                               accountId |-> AccountIdOf(api.request),
                               type |-> "latest", data |-> latest.value])
  /\ kv' = AfterGet(kv, LatestKey(api.request.route, AccountIdOf(api.request)))
  /\ UNCHANGED nStores
  /\ ApiStays

\* no accountId: the registry, then the latest snapshot of every account
ApiAll(registry, failing) ==
  /\ api.pc = "authorized"
  /\ api.request.route # "accounts"
  /\ Len(api.request.accountId) = 0
  /\ LET filtered == FilteredAccounts(registry, api.request.exchange)
         response == GetAll(kv, now, api.request.route, registry,
                            api.request.exchange, failing)
     IN /\ api' = ApiAnswer([api EXCEPT !.registry = registry],
                            <<"registry", "latest">>, response.status = 500,
                            response)
        /\ kv' = AfterLatestReads(kv, api.request.route,
                                  [i \in 1..Len(filtered) |-> filtered[i].id])
  /\ UNCHANGED nStores
  /\ ApiStays

\* the steps of the handler
ApiStep ==
  \/ ApiAuthorize
  \/ \E registry \in ApiRegistries : ApiAccounts(registry)
  \/ ApiRegistryFail
  \/ \E outcome \in ReadOutcomes : ApiHistory(outcome)
  \/ \E outcome \in ReadOutcomes : ApiLatest(outcome)
  \/ \E registry \in ApiRegistries, failing \in {{}, {"a1"}} :
       ApiAll(registry, failing)

ApiNext ==
  \/ \E i \in SeedInputs : SeedSnapshot(i[1], i[2], i[3])
  \/ \E request \in ApiRequests : ApiReceive(request)
  \/ ApiStep

ApiSpec == ApiInit /\ [][ApiNext]_vars

\* ------------------------------------------------------------------------
\* Vocabulary of the Read API properties
\* ------------------------------------------------------------------------
\* the request was answered from reads that all went through
Served == api.pc = "done" /\ api.response.status = 200

HasAccountId == Len(api.request.accountId) > 0

\* the request names both bounds
BoundsSupplied == Len(api.request.startTime) > 0 /\ Len(api.request.endTime) > 0

\* the keys configured in the environment of the request
ConfiguredKeys ==
  IF api.request.env = EnvSet(<<"k", "1", ",", " ", "k", "2">>)
  THEN {<<"k", "1">>, <<"k", "2">>}
  ELSE {}

\* ------------------------------------------------------------------------
\* C31 The Read API is a pure read: every step of the handling of a GET
\*     accounts, positions or orders request leaves every key of the
\*     snapshot and equity stores (kv) and of the grid-level store
\*     (hashes) as it was.
\* ------------------------------------------------------------------------
C31_PureRead == [][ApiStep => (kv' = kv /\ hashes' = hashes)]_vars

\* a historical read answered from a store that holds snapshots
C31_Witness ==
  /\ Served
  /\ api.request.route = "positions"
  /\ api.response.type = "historical"
  /\ api.response.count > 0
  /\ RedisGet(kv, now, LatestKey("positions", "a1")) # [nil |-> TRUE]

\* ------------------------------------------------------------------------
\* C33 Read API dispatch: a positions or orders request that supplies
\*     accountId together with both startTime and endTime gets the
\*     historical shape (type "historical", count equal to the number of
\*     entries of getHistory for that range); one that supplies accountId
\*     without both bounds gets the single-account latest shape; one
\*     without accountId gets the all-accounts shape with one entry per
\*     account of the registry matching the exchange filter.
\* ------------------------------------------------------------------------
DispatchedBy(bounds) ==
  (Served /\ api.request.route # "accounts") =>
    /\ (HasAccountId /\ bounds) =>
         /\ api.response.type = "historical"
         /\ api.response.count =
              Len(GetHistory(kv, now, api.request.route, AccountIdOf(api.request),
                             TimeParam(api.request.startTime),
                             TimeParam(api.request.endTime)))
    /\ (HasAccountId /\ ~bounds) =>
         /\ api.response.type = "latest"
         /\ api.response.data =
              GetLatest(kv, now, api.request.route, AccountIdOf(api.request))
    /\ ~HasAccountId =>
         LET matching == FilteredAccounts(api.registry, api.request.exchange)
         IN /\ api.response.type = "all"
            /\ api.response.count = Len(matching)
            /\ Len(api.response.accounts) = Len(matching)
            /\ \A i \in 1..Len(matching) :
                 api.response.accounts[i].accountId = matching[i].id

C33_Dispatch == DispatchedBy(BoundsSupplied)

\* what the code has: the historical shape needs both bounds to parse to a
\* number other than 0
C33_DispatchOnTruthyBounds == DispatchedBy(BothBounds(api.request))

\* ------------------------------------------------------------------------
\* C34 The Read API rejects a request without a valid API key with HTTP
\*     401 {error: "Unauthorized", message} before reading the account
\*     registry or any store key; a request is let through only if its
\*     key equals one of the configured keys.
\* ------------------------------------------------------------------------
C34_KeyFirst ==
  api.pc # "none" =>
    IF api.request.apiKey \in ConfiguredKeys
    THEN api.pc = "done" => api.response.status # 401
    ELSE /\ api.pc \in {"received", "done"}
         /\ api.reads = <<>>
         /\ api.pc = "done" =>
              /\ api.response.status = 401
              /\ api.response.error = "Unauthorized"
              /\ Len(api.response.message) > 0

C34_Witness ==
  /\ api.pc = "done"
  /\ api.request.apiKey = <<"k", "3">>
  /\ api.request.env.set
  /\ api.response.status = 401
  /\ api.reads = <<>>
  /\ kv # <<>>

\* ------------------------------------------------------------------------
\* The dashboard: GET /api/monitor, the equity part of one account's row
\* ------------------------------------------------------------------------
\* the balances read from the exchange for an account of the dashboard:
\* <<accountId, exchange, totalEquity>>
MonitorInputs ==
  {<<"a1", "asterdex", 0>>, <<"a1", "asterdex", 250>>, <<"a2", "okx", 300>>,
   <<"a2", "okx", 0>>}

\* if (totalEquity > 0) on the AsterDex path, if (balance) on the OKX path
StoresEquity(exchange, totalEquity) ==
  IF exchange = "asterdex" THEN totalEquity > 0 ELSE TRUE

\* the equity block of an account: storeEquitySnapshot, then getEquity24hAgo
MonitorEquity(accountId, exchange, totalEquity) ==
  /\ nRecords < MaxRecords
  /\ nRecords' = nRecords + 1
  /\ IF StoresEquity(exchange, totalEquity)
     THEN /\ kv' = RedisSetex(kv, now, EquityKey(accountId, now), EquityTTLSeconds,
                              EquityToString(totalEquity))
          /\ samples' = Append(samples, [account |-> accountId,
                                         equity |-> totalEquity,
                                         timestamp |-> now])
     ELSE UNCHANGED <<kv, samples>>
  /\ UNCHANGED <<now, calls, log, writes, nStores, nDayTicks, nEquityTicks,
                 gridVars, routeVars, opsVars>>

MonitorStep == \E i \in MonitorInputs : MonitorEquity(i[1], i[2], i[3])

MonitorNext ==
  \/ MonitorStep
  \/ EquityTick

MonitorSpec == Init /\ [][MonitorNext]_vars

\* ------------------------------------------------------------------------
\* C32 The dashboard accesses the stores read-only: handling a dashboard
\*     monitor request writes no key of the Snapshot, Grid Level or Equity
\*     stores.
\* ------------------------------------------------------------------------
C32_DashboardReadOnly == [][MonitorStep => (kv' = kv /\ hashes' = hashes)]_vars

\* what the code has: the only key a monitor request writes is one equity
\* sample of the account it shows, at the instant of the request
C32_DashboardWritesEquityOnly ==
  [][MonitorStep =>
       /\ hashes' = hashes
       /\ \A k \in DOMAIN kv : k \in DOMAIN kv' /\ (kv'[k] = kv[k] \/
            \E a \in Accounts : k = EquityKey(a, now))
       /\ \A k \in DOMAIN kv' \ DOMAIN kv :
            \E a \in Accounts : k = EquityKey(a, now)]_vars

\* ------------------------------------------------------------------------
\* POST /api/delete-grid-level over grids of both exchanges
\* ------------------------------------------------------------------------
\* the default of the exchange parameter of deleteGridLevel and
\* clearGridLevels
DefaultExchange == "asterdex"

\* the levels the strategies have set: a1 trades on AsterDex, a2 on OKX
HandlerSetInputs ==
  {<<"a1", "BTCUSDT", "buy", 2, LevelA, "asterdex">>,
   <<"a1", "BTCUSDT", "sell", 2, LevelB, "asterdex">>,
   <<"a2", "BTC-USDT-SWAP", "buy", 2, LevelA, "okx">>,
   <<"a2", "BTC-USDT-SWAP", "buy", 3, LevelB, "okx">>}

\* the bodies explored: "" is a member left out, hasIndex tells whether
\* levelIndex is there
DeleteBodies ==
  {[accountId |-> x[1], symbol |-> x[2], side |-> side, hasIndex |-> hasIndex,
    levelIndex |-> 2, exchange |-> exchange, clearAll |-> clearAll] :
     x \in {<<"a1", "BTCUSDT">>, <<"a2", "BTC-USDT-SWAP">>, <<"", "BTCUSDT">>},
     side \in {"", "buy"}, hasIndex \in BOOLEAN,
     exchange \in {"", "okx", "asterdex"}, clearAll \in BOOLEAN}

\* the exchange deleteGridLevel / clearGridLevels run with: the handler
\* passes none, so the default of the parameter
ExchangeUsed(body) == DefaultExchange

\* the handler: its status and the grid store it leaves
DeleteGridLevelPost(st, session, body) ==
  IF ~session THEN [status |-> 401, store |-> st]
  ELSE IF body.accountId = "" \/ body.symbol = "" THEN [status |-> 400, store |-> st]
  ELSE IF body.clearAll
  THEN [status |-> 200,
        store |->
          IF body.side # ""
          THEN Del(st, GridKey(body.accountId, body.symbol, body.side,
                               ExchangeUsed(body)))
          ELSE Del(Del(st, GridKey(body.accountId, body.symbol, "buy",
                                   ExchangeUsed(body))),
                   GridKey(body.accountId, body.symbol, "sell", ExchangeUsed(body)))]
  ELSE IF body.side = "" \/ ~body.hasIndex THEN [status |-> 400, store |-> st]
  ELSE [status |-> 200,
        store |-> HDel(st, GridKey(body.accountId, body.symbol, body.side,
                                   ExchangeUsed(body)),
                       LevelField(body.levelIndex))]

HandlerStays ==
  UNCHANGED <<clearCall, snapVars, equityVars, routeVars, opsVars>>

\* a strategy sets a level, before the request
HandlerSetLevel(i) ==
  /\ gridLog = <<>>
  /\ nGridOps < MaxGridOps
  /\ nGridOps' = nGridOps + 1
  /\ hashes' = HSet(hashes, GridKey(i[1], i[2], i[3], i[6]), LevelField(i[4]),
                    JSONStringify(i[5]))
  /\ UNCHANGED gridLog
  /\ HandlerStays

\* the request is handled (no other grid operation runs meanwhile)
PostDeleteGridLevel(session, body) ==
  /\ gridLog = <<>>
  /\ hashes' = DeleteGridLevelPost(hashes, session, body).store
  /\ gridLog' = <<[op |-> "post", session |-> session, body |-> body,
                   status |-> DeleteGridLevelPost(hashes, session, body).status]>>
  /\ UNCHANGED nGridOps
  /\ HandlerStays

\* the session is there, the body is complete and hdel / del rejects: the
\* catch answers 500, the store is as before
PostDeleteGridLevelFail(session, body) ==
  /\ gridLog = <<>>
  /\ DeleteGridLevelPost(hashes, session, body).status = 200
  /\ gridLog' = <<[op |-> "post", session |-> session, body |-> body,
                   status |-> 500]>>
  /\ UNCHANGED <<hashes, nGridOps>>
  /\ HandlerStays

HandlerNext ==
  \/ \E i \in HandlerSetInputs : HandlerSetLevel(i)
  \/ \E session \in BOOLEAN, body \in DeleteBodies : PostDeleteGridLevel(session, body)
  \/ \E session \in BOOLEAN, body \in DeleteBodies : PostDeleteGridLevelFail(session, body)

HandlerSpec == Init /\ [][HandlerNext]_vars

\* the exchange of the accounts of the grids explored
AccountExchange(accountId) == IF accountId = "a2" THEN "okx" ELSE "asterdex"

\* a delete of one level that went through (answered success)
Deletes(body) ==
  /\ ~body.clearAll
  /\ DeleteGridLevelPost(hashes, TRUE, body).status = 200
  /\ PostDeleteGridLevel(TRUE, body)

\* the grid read for the exchange finds a level of that index
LevelRead(st, body, exchange) ==
  HasField(HGetAll(st, GridKey(body.accountId, body.symbol, body.side, exchange)),
           LevelField(body.levelIndex))

\* ------------------------------------------------------------------------
\* C35 The delete-grid-level handler deletes in the key space of the
\*     account's exchange: it takes the exchange from the request body,
\*     defaulting to "asterdex" when absent, and calls deleteGridLevel
\*     with it, so that after a successful delete for an account of
\*     exchange X the level is absent from the grid read for exchange X.
\* ------------------------------------------------------------------------
C35_DeletesInExchangeKeySpace ==
  [][\A body \in DeleteBodies :
       (Deletes(body) /\ body.exchange \in {"", AccountExchange(body.accountId)}) =>
         /\ ~LevelRead(hashes', body, AccountExchange(body.accountId))
         /\ body.exchange # "" => ~LevelRead(hashes', body, body.exchange)]_vars

\* what the code has: the delete always runs in the AsterDex key space,
\* whatever the body says, and leaves the keys of other exchanges alone
C35_DeletesInAsterdexKeySpace ==
  [][\A body \in DeleteBodies :
       Deletes(body) =>
         /\ ~LevelRead(hashes', body, "asterdex")
         /\ LevelRead(hashes', body, "okx") = LevelRead(hashes, body, "okx")]_vars


\* ------------------------------------------------------------------------
\* Two store calls in flight at once
\* The snapshot job and a manual run of it, or two runs of the job, call
\* storePositionsSnapshot for the same account while the other call is
\* between its awaits.  Each call keeps the timestamp it read at its start.
\* ------------------------------------------------------------------------
RaceCallers == {"c1", "c2"}

RaceInputs ==
  {<<"positions", "a1", PayloadA>>, <<"positions", "a1", PayloadB>>}

RaceInit ==
  /\ now = Num(0)
  /\ kv = <<>>
  /\ calls = [c \in RaceCallers |-> Idle]
  /\ log = [ka \in Kinds \X Accounts |-> <<>>]
  /\ writes = [ka \in Kinds \X Accounts |-> <<>>]
  /\ nStores = 0
  /\ nDayTicks = 0
  /\ hashes = <<>>
  /\ gridLog = <<>>
  /\ nGridOps = 0
  /\ clearCall = Idle
  /\ samples = <<>>
  /\ nRecords = 0
  /\ nEquityTicks = 0
  /\ normalized = NoCall
  /\ converted = NoCall
  /\ api = NoRequest
  /\ reader = Idle
  /\ chunks = NoRequest
  /\ job = NoJob
  /\ close = NoRequest

RaceNext ==
  \/ \E c \in RaceCallers, i \in RaceInputs : StoreBegin(c, i[1], i[2], i[3])
  \/ \E c \in RaceCallers : StoreHistoryWrite(c)
  \/ \E c \in RaceCallers : StoreLatestWrite(c)
  \/ TickMs

RaceSpec == RaceInit /\ [][RaceNext]_vars

\* the calls on ka that have completed, and the greatest of their timestamps
Completed(ka) == {log[ka][i] : i \in 1..Len(log[ka])}

Greatest(ka) ==
  {e \in Completed(ka) : \A f \in Completed(ka) : NumLeq(f.timestamp, e.timestamp)}

BothCompleted(ka) ==
  /\ Len(log[ka]) = 2
  /\ \A i \in 1..2 : log[ka][i].end = "returned"
  /\ InFlight(ka[1], ka[2]) = {}

Interleaved(ka) == \E i \in 1..Len(log[ka]) : log[ka][i].overlapped

\* ------------------------------------------------------------------------
\* C36  With two store calls for the same (kind, account) whose store
\*      writes interleave, once both have completed the "latest" pointer
\*      holds the snapshot with the greater timestamp, which is the newest
\*      historical entry.
\* ------------------------------------------------------------------------
C36_LatestIsGreatest ==
  \A ka \in KA :
    (BothCompleted(ka) /\ Interleaved(ka)) =>
      /\ \E e \in Greatest(ka) :
           GetLatest(kv, now, ka[1], ka[2]) = Envelope(e.timestamp, e.payload)
      /\ LatestIsNewest(kv, now, ka)

\* what the code does: the pointer holds the snapshot of the call whose
\* second write reached the store last
C36_LastWriterWins ==
  \A ka \in KA :
    BothCompleted(ka) =>
      GetLatest(kv, now, ka[1], ka[2]) =
        Envelope(LastCall(ka).timestamp, LastCall(ka).payload)

\* the pointer is left on the older snapshot
C36_OlderSnapshotLeft ==
  \E ka \in KA :
    /\ BothCompleted(ka)
    /\ Interleaved(ka)
    /\ NumLt(LastCall(ka).timestamp, log[ka][1].timestamp)
    /\ GetLatest(kv, now, ka[1], ka[2]) =
         Envelope(LastCall(ka).timestamp, LastCall(ka).payload)


\* ------------------------------------------------------------------------
\* The grid orders of the dashboard (processAsterdexAccount, HomePage)
\* The monitor endpoint keeps the pending levels of the grid read and names
\* each order after its position in the filtered array; the dashboard reads
\* the level index to delete back from that name.
\* ------------------------------------------------------------------------
\* level.status === "pending"
IsPending(level) ==
  \E i \in 1..Len(level.v) :
    /\ level.v[i][1] = "status"
    /\ level.v[i][2].t = "str"
    /\ level.v[i][2].v = "pending"

\* `grid_${side}_${idx}`
OrderId(side, idx) == <<"grid", "_", side, "_">> \o NumToString(Num(idx))

\* .filter((level) => level.status === "pending").map((level, idx) => ...)
GridOrders(levels, side) ==
  LET pending == SelectSeq(levels, IsPending)
  IN [i \in 1..Len(pending) |->
        [orderId |-> OrderId(side, i - 1), level |-> pending[i]]]

\* parseInt(order.orderId.split('_')[2] || '0')
LevelIndexSent(orderId) ==
  LET parts == Split(orderId, "_")
  IN ParseInt(IF Len(parts) < 3 \/ parts[3] = <<>> THEN <<"0">> ELSE parts[3])

\* the fields of the hash the orders are built from, in the order of the
\* orders: the fields in level order whose value parses to a pending level
OrderFields(data) ==
  SelectSeq(SortLevelKeys(ObjectKeys(data)),
            LAMBDA levelKey :
              /\ JSONParse(FieldValue(data, levelKey)).ok
              /\ IsPending(JSONParse(FieldValue(data, levelKey)).val))

DisplayedOrders(g) == GridOrders(Levels(g), g[3])

StoredFields(g) == OrderFields(HGetAll(hashes, GridKey(g[1], g[2], g[3], g[4])))

\* ------------------------------------------------------------------------
\* C37  The level index the dashboard sends when deleting a displayed grid
\*      order (the numeric suffix of the order's orderId) equals the index
\*      of the stored level_{index} field the order was built from, for
\*      every set of stored levels, with gaps and with filled levels.
\* ------------------------------------------------------------------------
C37_SendsStoredIndex ==
  \A g \in Grids :
    /\ Len(DisplayedOrders(g)) = Len(StoredFields(g))
    /\ \A i \in 1..Len(DisplayedOrders(g)) :
         LevelIndexSent(DisplayedOrders(g)[i].orderId) = LevelNumber(StoredFields(g)[i])

\* what the code sends: the position of the order among the pending levels
\* of the grid read, counted from 0
C37_SendsPosition ==
  \A g \in Grids :
    /\ Len(DisplayedOrders(g)) = Len(StoredFields(g))
    /\ \A i \in 1..Len(DisplayedOrders(g)) :
         /\ LevelIndexSent(DisplayedOrders(g)[i].orderId) = Num(i - 1)
         /\ DisplayedOrders(g)[i].level =
              JSONParse(FieldValue(HGetAll(hashes, GridKey(g[1], g[2], g[3], g[4])),
                                   StoredFields(g)[i])).val

\* the order built from level_2 is deleted as level 0, a field the hash
\* does not hold
C37_DeletesAnotherField ==
  \E g \in Grids :
    /\ Len(DisplayedOrders(g)) = 1
    /\ StoredFields(g) = <<LevelField(2)>>
    /\ LevelIndexSent(DisplayedOrders(g)[1].orderId) = Num(0)
    /\ ~HasField(HGetAll(hashes, GridKey(g[1], g[2], g[3], g[4])), LevelField(0))


\* ------------------------------------------------------------------------
\* getGridLevelsBothSides next to clearGridLevels without a side
\* The read is two HGETALL commands, BUY then SELL, issued under
\* Promise.all; the clear is two awaited DEL commands, BUY then SELL.  The
\* store runs the four commands one at a time, in the order they arrive.
\* ------------------------------------------------------------------------
\* <<accountId, symbol>> of the reads
ReadBothInputs == {<<"a1", "BTCUSDT">>, <<"a1", "ETHUSDT">>, <<"a2", "BTCUSDT">>}

\* <<accountId, symbol>> of the clearGridLevels requests without a side
\* that run next to the reads
RaceClearInputs == {<<"a1", "BTCUSDT">>, <<"a1", "ETHUSDT">>}

ReadStays ==
  UNCHANGED <<gridVars, snapVars, equityVars, routeVars, job, close, api, chunks>>

\* the call: both getGridLevels calls run up to their await
ReadBothBegin(accountId, symbol, exchange) ==
  /\ reader.pc \in {"idle", "done"}
  /\ reader' = [pc |-> "buy", account |-> accountId, symbol |-> symbol,
                exchange |-> exchange, buy |-> <<>>, sell |-> <<>>]
  /\ ReadStays

\* HGETALL of the BUY key is answered
ReadBuySide ==
  /\ reader.pc = "buy"
  /\ reader' = [reader EXCEPT
                  !.pc = "sell",
                  !.buy = GetGridLevels(hashes, reader.account, reader.symbol,
                                        "buy", reader.exchange)]
  /\ ReadStays

\* HGETALL of the SELL key is answered, Promise.all resolves
ReadSellSide ==
  /\ reader.pc = "sell"
  /\ reader' = [reader EXCEPT
                  !.pc = "done",
                  !.sell = GetGridLevels(hashes, reader.account, reader.symbol,
                                         "sell", reader.exchange)]
  /\ ReadStays

ClearRaceNext ==
  \/ \E i \in RaceClearInputs, e \in Exchanges : ClearBuy(i[1], i[2], e)
  \/ ClearSell
  \/ \E i \in ReadBothInputs, e \in Exchanges : ReadBothBegin(i[1], i[2], e)
  \/ ReadBuySide
  \/ ReadSellSide

ClearRaceSpec == EditInit /\ [][ClearRaceNext]_vars

\* what the read returned
BothSidesRead == [buy |-> reader.buy, sell |-> reader.sell]

\* both sides as they were before the clear: only clears change the grids
BeforeClear(accountId, symbol, exchange) ==
  GetGridLevelsBothSides(SeedHashes(Len(SeedLevels)), accountId, symbol, exchange, {})

BothEmpty == [buy |-> <<>>, sell |-> <<>>]

\* ------------------------------------------------------------------------
\* C38  A getBothSides read that runs concurrently with a clearAll(account,
\*      symbol) without side returns either both sides as they were before
\*      the clear or both sides empty, never an empty buy side together
\*      with a non-empty sell side.
\* ------------------------------------------------------------------------
C38_BeforeOrEmpty ==
  reader.pc = "done" =>
    BothSidesRead \in
      {BeforeClear(reader.account, reader.symbol, reader.exchange), BothEmpty}

\* what the code has: each side is read whole, as it was before the clear
\* or empty
C38_EachSideBeforeOrEmpty ==
  reader.pc = "done" =>
    /\ reader.buy \in
         {BeforeClear(reader.account, reader.symbol, reader.exchange).buy, <<>>}
    /\ reader.sell \in
         {BeforeClear(reader.account, reader.symbol, reader.exchange).sell, <<>>}

\* the read that ran between the two DELs: the buy side is empty, the sell
\* side is as before the clear
C38_TornRead ==
  /\ reader.pc = "done"
  /\ BeforeClear(reader.account, reader.symbol, reader.exchange).buy # <<>>
  /\ reader.buy = <<>>
  /\ reader.sell # <<>>
  /\ reader.sell = BeforeClear(reader.account, reader.symbol, reader.exchange).sell


\* ------------------------------------------------------------------------
\* Vocabulary of the snapshot pointers of a positions run.  The store is
\* empty when the run starts and each account is processed once, so a
\* pointer that was not changed reads null.
\* ------------------------------------------------------------------------
PointerWritten(kind, id) == GetLatest(kv, now, kind, id) # JNull

\* the account of slot k has been processed by the positions job
Processed(k) == job.kind = "positions" /\ job.outcome[k] # "none"

\* ------------------------------------------------------------------------
\* C39  In a positions-snapshot run the positions and orders "latest"
\*      pointers of an account move together: for each account either both
\*      are overwritten with data fetched in that run and the account is
\*      reported success, or neither is changed and the account is
\*      reported failed or skipped.
\* ------------------------------------------------------------------------
C39_PointersMoveTogether ==
  \A k \in Slots :
    Processed(k) =>
      IF job.outcome[k] = "stored"
      THEN /\ PointerWritten("positions", job.registry[k].id)
           /\ PointerWritten("orders", job.registry[k].id)
      ELSE /\ ~PointerWritten("positions", job.registry[k].id)
           /\ ~PointerWritten("orders", job.registry[k].id)

\* what the code has: an account reported success has both pointers
\* written, and the orders pointer is never written without the positions
\* pointer
C39_OrdersAfterPositions ==
  \A k \in Slots :
    Processed(k) =>
      /\ job.outcome[k] = "stored" =>
           /\ PointerWritten("positions", job.registry[k].id)
           /\ PointerWritten("orders", job.registry[k].id)
      /\ PointerWritten("orders", job.registry[k].id) =>
           PointerWritten("positions", job.registry[k].id)
      /\ job.outcome[k] \notin {"stored", "store-failed"} =>
           /\ ~PointerWritten("positions", job.registry[k].id)
           /\ ~PointerWritten("orders", job.registry[k].id)

\* storeOrdersSnapshot rejects after storePositionsSnapshot went through:
\* the positions pointer is overwritten, the orders pointer is not, the
\* account is reported failed
C39_PositionsOnly ==
  \E k \in Slots :
    /\ Processed(k)
    /\ job.outcome[k] = "store-failed"
    /\ \E n \in EntriesFor(job.registry[k].id) : ~MarkedSuccess(job.results[n])
    /\ PointerWritten("positions", job.registry[k].id)
    /\ ~PointerWritten("orders", job.registry[k].id)


\* ------------------------------------------------------------------------
\* JavaScript numbers of the trade-history route
\* startTime and endTime are what parseInt returns: IEEE 754 doubles.  A
\* non-negative integer-valued double is m * 2^j with m < 2^53, and j = 0
\* or m >= 2^52; m is held in two limbs, m = hi * 2^27 + lo, so that every
\* intermediate value stays within 32 bits.
\* ------------------------------------------------------------------------
LoBase == 2^27

HiLimit == 2^26

Dbl(j, hi, lo) == [j |-> j, hi |-> hi, lo |-> lo]

\* the sentinels of a query parameter: left out, and parseInt's NaN
NotGiven == Dbl(-1, 0, 0)

NaNTime == Dbl(-2, 0, 0)

DblZero == Dbl(0, 0, 0)

\* the value as a condition: undefined, NaN and 0 are falsy
DblTruthy(x) == x.j >= 0 /\ x # DblZero

DblCarry(j, hi, lo) == Dbl(j, hi + lo \div LoBase, lo % LoBase)

\* a significand that reached 2^53 loses its last bit, round half to even
DblRound(x) ==
  IF x.hi < HiLimit THEN x
  ELSE LET half == Dbl(x.j + 1, x.hi \div 2, (x.hi % 2) * (LoBase \div 2) + x.lo \div 2)
       IN IF x.lo % 2 = 1 /\ half.lo % 2 = 1
          THEN DblCarry(half.j, half.hi, half.lo + 1)
          ELSE half

\* x + n for an integer 0 <= n <= 2^30, rounded to the nearest double
DblAdd(x, n) ==
  IF x.j = 0 THEN DblRound(DblCarry(0, x.hi, x.lo + n))
  ELSE IF x.j > 30 THEN x
  ELSE LET q == n \div 2^(x.j)
           r == n % 2^(x.j)
           half == 2^(x.j - 1)
           up == r > half \/ (r = half /\ (x.lo + q) % 2 = 1)
       IN DblRound(DblCarry(x.j, x.hi, x.lo + q + (IF up THEN 1 ELSE 0)))

\* a < b
DblLess(a, b) ==
  \/ a.j < b.j
  \/ a.j = b.j /\ (a.hi < b.hi \/ (a.hi = b.hi /\ a.lo < b.lo))

\* Math.min(a, b)
MathMin(a, b) == IF DblLess(b, a) THEN b ELSE a

\* const SEVEN_DAYS_MS = 7 * 24 * 60 * 60 * 1000
SEVEN_DAYS_MS == 7 * 24 * 60 * 60 * 1000

DayMs == 24 * 60 * 60 * 1000

\* Date.now() - SEVEN_DAYS_MS, for the clock values of this century
MinusSevenDays(x) == DblCarry(0, x.hi - 5, x.lo + (5 * LoBase - SEVEN_DAYS_MS))

\* b - a <= n, exactly
DblWithin(a, b, n) ==
  LET scale == b.j - a.j
      units == IF scale = 0
               THEN [hi |-> b.hi - a.hi, lo |-> b.lo - a.lo]
               ELSE [hi |-> 2 * b.hi - a.hi, lo |-> 2 * b.lo - a.lo]
  IN IF DblLess(b, a) \/ a = b THEN TRUE
     ELSE IF scale > 1 \/ units.hi > 8 THEN FALSE
     ELSE IF a.j > 30 THEN FALSE
     ELSE units.hi * LoBase + units.lo <= n \div 2^(a.j)

\* ------------------------------------------------------------------------
\* GET /api/trade-history from the time range on: the cache read, then the
\* chunk loop for the symbol, then the positions read.  The request has a
\* session or a key and names an AsterDex account with credentials and a
\* symbol.
\* ------------------------------------------------------------------------
\* 1.7 * 10^12 ms, a Date.now() of this century
ClockTime == Dbl(0, 12665, 132474880)

TenDaysOn == DblAdd(DblAdd(ClockTime, SEVEN_DAYS_MS), 3 * DayMs)

TwoWeeksOn == DblAdd(DblAdd(ClockTime, SEVEN_DAYS_MS), SEVEN_DAYS_MS)

\* 2^82 and 2^83, which parseInt returns for their decimal digits
TwoTo82 == Dbl(30, HiLimit \div 2, 0)

TwoTo83 == Dbl(31, HiLimit \div 2, 0)

\* <<startTime, endTime>> as parsed
TimeRanges ==
  {<<NotGiven, NotGiven>>, <<DblZero, TenDaysOn>>, <<NaNTime, DblZero>>,
   <<ClockTime, TenDaysOn>>, <<ClockTime, TwoWeeksOn>>, <<ClockTime, ClockTime>>,
   <<TwoWeeksOn, ClockTime>>, <<ClockTime, DblAdd(ClockTime, 1)>>,
   <<ClockTime, NotGiven>>,
   <<TwoTo82, Dbl(30, HiLimit \div 2, 3)>>,
   <<TwoTo83, Dbl(31, HiLimit \div 2, 2)>>}

\* the two Date.now() reads of lines 90 and 91
ClockReads == {<<TenDaysOn, TenDaysOn>>, <<TenDaysOn, DblAdd(TenDaysOn, 1)>>}

ChunkStays ==
  UNCHANGED <<snapVars, gridVars, equityVars, routeVars, job, close, api, reader>>

\* lines 85-94
ChunkReceive(range, clock) ==
  /\ chunks.pc = "none"
  /\ chunks' =
       [pc |-> "cache",
        requestedStartTime |->
          IF DblTruthy(range[1]) THEN range[1] ELSE MinusSevenDays(clock[1]),
        requestedEndTime |-> IF DblTruthy(range[2]) THEN range[2] ELSE clock[2],
        currentStart |-> DblZero, currentEnd |-> DblZero,
        requested |-> {}, failed |-> {}, response |-> NoResponse]
  /\ ChunkStays

\* lines 96-140: the cached history is answered
ChunkCacheHit ==
  /\ chunks.pc = "cache"
  /\ chunks' = [chunks EXCEPT !.pc = "done",
                              !.response = [status |-> 200, source |-> "redis"]]
  /\ ChunkStays

\* lines 142-196: no cached history, the loop starts
ChunkCacheMiss ==
  /\ chunks.pc = "cache"
  /\ chunks' = [chunks EXCEPT !.pc = "loop",
                              !.currentStart = chunks.requestedStartTime]
  /\ ChunkStays

\* lines 197-207: the loop test, and the chunk up to the first await
ChunkTest ==
  /\ chunks.pc = "loop"
  /\ chunks' =
       IF DblLess(chunks.currentStart, chunks.requestedEndTime)
       THEN LET currentEnd == MathMin(DblAdd(chunks.currentStart, SEVEN_DAYS_MS),
                                      chunks.requestedEndTime)
            IN [chunks EXCEPT
                  !.pc = "trades",
                  !.currentEnd = currentEnd,
                  !.requested = @ \cup {[from |-> chunks.currentStart,
                                         to |-> currentEnd]}]
       ELSE [chunks EXCEPT !.pc = "positions"]
  /\ ChunkStays

\* the chunk is over: a rejection is caught and logged
ChunkEnd(c, rejected) ==
  [c EXCEPT !.pc = "loop",
            !.currentStart = c.currentEnd,
            !.failed = IF rejected
                       THEN @ \cup {[from |-> c.currentStart, to |-> c.currentEnd]}
                       ELSE @]

\* lines 202-208, 219-224
ChunkTradesReply(rejected) ==
  /\ chunks.pc = "trades"
  /\ chunks' = IF rejected THEN ChunkEnd(chunks, TRUE)
               ELSE [chunks EXCEPT !.pc = "income"]
  /\ ChunkStays

\* lines 211-224
ChunkIncomeReply(rejected) ==
  /\ chunks.pc = "income"
  /\ chunks' = ChunkEnd(chunks, rejected)
  /\ ChunkStays

\* lines 229-247
ChunkPositionsReply(rejected) ==
  /\ chunks.pc = "positions"
  /\ chunks' = [chunks EXCEPT
                  !.pc = "done",
                  !.response = IF rejected THEN [status |-> 500, source |-> ""]
                               ELSE [status |-> 200, source |-> "api"]]
  /\ ChunkStays

ChunkNext ==
  \/ \E range \in TimeRanges, clock \in ClockReads : ChunkReceive(range, clock)
  \/ ChunkCacheHit
  \/ ChunkCacheMiss
  \/ ChunkTest
  \/ \E rejected \in BOOLEAN : ChunkTradesReply(rejected)
  \/ \E rejected \in BOOLEAN : ChunkIncomeReply(rejected)
  \/ \E rejected \in BOOLEAN : ChunkPositionsReply(rejected)

ChunkSpec == Init /\ [][ChunkNext]_vars

\* every await settles and the handler goes on
ChunkFairSpec == ChunkSpec /\ WF_vars(ChunkNext)

\* ------------------------------------------------------------------------
\* Vocabulary of the chunk-loop properties
\* ------------------------------------------------------------------------
InChunkLoop == chunks.pc \in {"loop", "trades", "income"}

LoopOver == chunks.pc = "positions" \/ (chunks.pc = "done" /\ chunks.response.source # "redis")

\* the chunks of S follow one another from a to b, none of them empty
RECURSIVE Covers(_, _, _)
Covers(S, a, b) ==
  IF S = {} THEN a = b
  ELSE \E c \in S : c.from = a /\ DblLess(c.from, c.to) /\ Covers(S \ {c}, c.to, b)

ChunksAsClaimed ==
  /\ chunks.pc # "none" =>
       \A c \in chunks.requested : DblWithin(c.from, c.to, SEVEN_DAYS_MS)
  /\ LoopOver =>
       IF DblLess(chunks.requestedStartTime, chunks.requestedEndTime)
       THEN Covers(chunks.requested, chunks.requestedStartTime, chunks.requestedEndTime)
       ELSE chunks.requested = {}

\* both bounds, and every sum the loop forms, are below 2^53
SafeRange ==
  /\ chunks.pc # "none"
  /\ chunks.requestedStartTime.j = 0
  /\ chunks.requestedEndTime.j = 0
  /\ chunks.requestedEndTime.hi < HiLimit - 5

\* ------------------------------------------------------------------------
\* C40  The trade-history chunk loop terminates for every requested start
\*      and end time, and when start < end the chunks it requests are
\*      contiguous, each at most 7 days long, and together cover exactly
\*      the interval from the requested start to the requested end; a
\*      failed chunk does not stop the following chunks.
\* ------------------------------------------------------------------------
C40_ChunkLoop ==
  /\ []ChunksAsClaimed
  /\ InChunkLoop ~> LoopOver

\* what the code has: the same for bounds in the range where the sums of
\* the loop are exact
C40_ChunkLoopInSafeRange ==
  /\ [](SafeRange => ChunksAsClaimed)
  /\ (InChunkLoop /\ SafeRange) ~> LoopOver

\* a range of ten days is fetched in a chunk of seven days and one of three,
\* the first of which failed
C40_FailedChunkFollowed ==
  /\ LoopOver
  /\ chunks.requestedStartTime = ClockTime
  /\ chunks.requested =
       {[from |-> ClockTime, to |-> DblAdd(ClockTime, SEVEN_DAYS_MS)],
        [from |-> DblAdd(ClockTime, SEVEN_DAYS_MS), to |-> TenDaysOn]}
  /\ [from |-> ClockTime, to |-> DblAdd(ClockTime, SEVEN_DAYS_MS)] \in chunks.failed

\* from 2^83 on, currentStart + SEVEN_DAYS_MS is currentStart: the chunk is
\* empty and the loop is where it was
C40_LoopStalls ==
  /\ chunks.pc = "loop"
  /\ chunks.requested # {}
  /\ chunks.currentStart = chunks.requestedStartTime
  /\ DblLess(chunks.currentStart, chunks.requestedEndTime)

\* from 2^82 on, the chunk is 2^30 ms long, more than twelve days
C40_ChunkOverSevenDays ==
  /\ LoopOver
  /\ \E c \in chunks.requested : ~DblWithin(c.from, c.to, SEVEN_DAYS_MS)

=============================================================================
